---- MODULE Spec2Model ----
(***************************************************************************)
(* Model of the Verse chunking engine of smart-coding-mcp                  *)
(* (lib/verse-chunker.js): the Segmenter state machine of chunkVerseFile,  *)
(* the nested-member extractor and the token-budget splitter.              *)
(*                                                                         *)
(* A source line is a record [k, ind, tabs]: k names one concrete line     *)
(* text of the catalogue below (most are taken from the repository's own   *)
(* sample), ind is the number of leading whitespace characters put in      *)
(* front of it and tabs says how many of these are tab characters.         *)
(* A string holding several lines is the sequence of its lines; the empty  *)
(* string is the one-line sequence <<EmptyLine>>, as "".split('\n') is     *)
(* [""] in the source language.                                            *)
(***************************************************************************)
EXTENDS Naturals, Integers, Sequences, FiniteSets, TLC

\* ------------------------------------------------------------------------
\* Catalogue of line texts (without their leading whitespace)
\* ------------------------------------------------------------------------
\*   blank      ""
\*   comment    "# c"
\*   using      "using { /Fortnite.com/Devices }"
\*   attr       "@editable"
\*   enum1      "rotation_direction<public>:= enum{Left, Right}"
\*   enumS      "e:=enum{A}"
\*   enumM      "e := enum:"
\*   class      "custom_timer<public> := class<concrete>:"
\*   classS     "c := class:"
\*   struct     "fguid<public> := struct<concrete><computes><persistable>:"
\*   iface      "interface_power_node := interface:"
\*   module     "m := module:"
\*   ext        "(Guid:fguid).IsValid<public>()<decides><transacts>:void="
\*   extOpen    "(Guid:fguid).Pack("
\*   simpleFn   "GetIsActive<public>()<transacts>:logic="
\*   simpleFnS  "F():t="
\*   fnOpen     "Pack4Ints<public>("
\*   fnOpenS    "F("
\*   fnNested   "Foo(a:tuple(int,int)):int="
\*   ifaceMeth  "GetPriority()<reads>:int"
\*   param      "A: int,"
\*   sigEnd     ")<decides><transacts>: int ="
\*   sigEndS    "):t="
\*   stmt       "result := A + B + C + D"
\*   x          "x"
Kinds ==
    {"blank", "comment", "using", "attr", "enum1", "enumS", "enumM", "class",
     "classS", "struct", "iface", "module", "ext", "extOpen", "simpleFn",
     "simpleFnS", "fnOpen", "fnOpenS", "fnNested", "ifaceMeth", "param",
     "sigEnd", "sigEndS", "stmt", "x"}

\* number of characters of each catalogue text
KLen(k) ==
    CASE k = "blank" -> 0
      [] k = "comment" -> 3
      [] k = "using" -> 31
      [] k = "attr" -> 9
      [] k = "enum1" -> 46
      [] k = "enumS" -> 10
      [] k = "enumM" -> 10
      [] k = "class" -> 40
      [] k = "classS" -> 11
      [] k = "struct" -> 57
      [] k = "iface" -> 34
      [] k = "module" -> 12
      [] k = "ext" -> 56
      [] k = "extOpen" -> 18
      [] k = "simpleFn" -> 39
      [] k = "simpleFnS" -> 6
      [] k = "fnOpen" -> 18
      [] k = "fnOpenS" -> 2
      [] k = "fnNested" -> 26
      [] k = "ifaceMeth" -> 24
      [] k = "param" -> 7
      [] k = "sigEnd" -> 28
      [] k = "sigEndS" -> 4
      [] k = "stmt" -> 23
      [] k = "x" -> 1

\* the identifier a text starts with (what /^\s*(\w+)/ captures), "" if none
KWord(k) ==
    CASE k \in {"enum1"} -> "rotation_direction"
      [] k \in {"enumS", "enumM"} -> "e"
      [] k = "class" -> "custom_timer"
      [] k = "classS" -> "c"
      [] k = "struct" -> "fguid"
      [] k = "iface" -> "interface_power_node"
      [] k = "module" -> "m"
      [] k = "using" -> "using"
      [] k = "simpleFn" -> "GetIsActive"
      [] k \in {"simpleFnS", "fnOpenS"} -> "F"
      [] k = "fnOpen" -> "Pack4Ints"
      [] k = "fnNested" -> "Foo"
      [] k = "ifaceMeth" -> "GetPriority"
      [] k = "param" -> "A"
      [] k = "stmt" -> "result"
      [] k = "x" -> "x"
      [] OTHER -> ""

\* the text k behind n spaces
L(k, n) == [k |-> k, ind |-> n, tabs |-> 0]

\* the text k behind t tab characters
Tabbed(k, t) == [k |-> k, ind |-> t, tabs |-> t]
EmptyLine == L("blank", 0)

\* ------------------------------------------------------------------------
\* PATTERNS, getIndent, isBlankOrComment
\* ------------------------------------------------------------------------
\* classOrStruct without the interface alternative
classOrStructNoInterface(l) ==
    l.k \in {"enum1", "enumS", "enumM", "class", "classS", "struct"}

classOrStruct(l) ==
    l.k \in {"enum1", "enumS", "enumM", "class", "classS", "struct", "iface"}

\* match[4] of classOrStruct: the type word
TypeWord(l) ==
    CASE l.k \in {"enum1", "enumS", "enumM"} -> "enum"
      [] l.k \in {"class", "classS"} -> "class"
      [] l.k = "struct" -> "struct"
      [] l.k = "iface" -> "interface"

\* line.includes('{') && line.includes('}')
HasBraces(l) == l.k \in {"enum1", "enumS", "using"}

moduleDecl(l) == l.k = "module"
extensionStart(l) == l.k \in {"ext", "extOpen"}
functionStart(l) ==
    l.k \in {"simpleFn", "simpleFnS", "fnOpen", "fnOpenS", "fnNested", "ifaceMeth"}
simpleFunction(l) == l.k \in {"simpleFn", "simpleFnS"}
signatureEnd(l) ==
    l.k \in {"ext", "simpleFn", "simpleFnS", "fnNested", "sigEnd", "sigEndS"}
interfaceMethodEnd(l) ==
    l.k \in {"ext", "simpleFn", "simpleFnS", "fnNested", "sigEndS", "ifaceMeth"}
attribute(l) == l.k = "attr"
comment(l) == l.k = "comment"
using(l) == l.k = "using"
emptyOrWhitespace(l) == l.k = "blank"

\* match[1].length of /^(\s*)/: the number of leading whitespace
\* characters, a tab being one of them
getIndent(l) == l.ind

isBlankOrComment(l) == emptyOrWhitespace(l) \/ comment(l)

\* ------------------------------------------------------------------------
\* Strings as sequences of lines
\* ------------------------------------------------------------------------
Min(a, b) == IF a <= b THEN a ELSE b

\* Array.prototype.join('\n')
Join(arr) == IF arr = <<>> THEN <<EmptyLine>> ELSE arr

\* truthiness of a string: only "" is falsy
Truthy(s) == s # <<EmptyLine>>

LineLen(l) == l.ind + KLen(l.k)

RECURSIVE StrLen(_)
StrLen(s) ==
    IF Len(s) = 1 THEN LineLen(s[1])
    ELSE LineLen(s[1]) + 1 + StrLen(Tail(s))

RECURSIVE DropLeadingBlank(_)
DropLeadingBlank(s) ==
    IF s = <<>> THEN <<>>
    ELSE IF s[1].k = "blank" THEN DropLeadingBlank(Tail(s))
    ELSE s

RECURSIVE DropTrailingBlank(_)
DropTrailingBlank(s) ==
    IF s = <<>> THEN <<>>
    ELSE IF s[Len(s)].k = "blank" THEN DropTrailingBlank(SubSeq(s, 1, Len(s) - 1))
    ELSE s

\* String.prototype.trim(): whitespace-only lines at either end go, and so
\* does the leading whitespace of the first line left (no catalogue text
\* ends in whitespace)
Trim(s) ==
    LET t == DropTrailingBlank(DropLeadingBlank(s))
    IN IF t = <<>> THEN <<EmptyLine>>
       ELSE <<[t[1] EXCEPT !.ind = 0, !.tabs = 0]>> \o Tail(t)

\* a display signature: the text k cut to its first n characters, behind
\* the prefixes pre (a parent qualifier, a continuation mark)
Sig(pre, k, n) == [pre |-> pre, k |-> k, n |-> n]

\* s.trim().slice(0, n) of a one-line string
TrimSlice(l, n) == Sig(<<>>, l.k, Min(KLen(l.k), n))

\* ------------------------------------------------------------------------
\* Collaborators imported from ./tokenizer.js
\* ------------------------------------------------------------------------
\* estimated tokens of each catalogue text
KTok(k) ==
    CASE k = "blank" -> 0
      [] k \in {"fnOpenS", "sigEndS", "x"} -> 1
      [] k \in {"comment", "attr", "enumS", "simpleFnS", "param"} -> 2
      [] k \in {"enumM", "classS", "module"} -> 3
      [] k \in {"using", "extOpen", "fnOpen"} -> 4
      [] k \in {"fnNested", "ifaceMeth"} -> 5
      [] k \in {"enum1", "iface", "sigEnd"} -> 6
      [] k = "stmt" -> 7
      [] k \in {"class", "simpleFn"} -> 8
      [] k \in {"struct", "ext"} -> 10

\* fixed cost every estimate starts from
TokOverhead == 2

RECURSIVE SumTok(_)
SumTok(s) == IF s = <<>> THEN 0 ELSE KTok(s[1].k) + SumTok(Tail(s))

\* estimateTokens(text): a deterministic integer estimate of a string
estimateTokens(s) == TokOverhead + SumTok(s)

\* getChunkingParams(model): the {targetTokens, overlapTokens} pairs tried
Configs ==
    {[targetTokens |-> 8, overlapTokens |-> 3],
     [targetTokens |-> 100, overlapTokens |-> 20]}

\* ------------------------------------------------------------------------
\* chunkVerseFile: the Segmenter
\* ------------------------------------------------------------------------
NoChunk == [null |-> TRUE]

\* the fixed floor of finalizeChunk: shorter trimmed texts are not emitted
FloorLen == 20

AttrText(attrs) == [j \in 1..Len(attrs) |-> attrs[j].text]

\* startChunk(lineNum, line, indent, type, hasBody)
startChunk(lineNum, line, indent, type, hasBody) ==
    [startLine |-> lineNum, signatureLines |-> <<line>>, bodyLines |-> <<>>,
     baseIndent |-> indent, type |-> type, hasBody |-> hasBody]

\* BuiltChunk that prepends the attributes but keeps the start line of the
\* definition
BuiltChunkDefStart(cur, attrs, endLine) ==
    LET withAttrs == attrs # <<>>
        sigLines == IF withAttrs THEN AttrText(attrs) \o cur.signatureLines
                    ELSE cur.signatureLines
        signature == Trim(Join(sigLines))
        body == Join(cur.bodyLines)
        fullContent == IF Truthy(body) THEN signature \o body ELSE signature
    IN [text |-> fullContent, startLine |-> cur.startLine, endLine |-> endLine,
        tokenCount |-> estimateTokens(fullContent), type |-> cur.type,
        signature |-> TrimSlice(signature[1], 100)]

\* the chunk record finalizeChunk builds from a builder and the buffer
BuiltChunk(cur, attrs, endLine) ==
    LET withAttrs == attrs # <<>>
        start == IF withAttrs THEN attrs[1].lineNum ELSE cur.startLine
        sigLines == IF withAttrs THEN AttrText(attrs) \o cur.signatureLines
                    ELSE cur.signatureLines
        signature == Trim(Join(sigLines))
        body == Join(cur.bodyLines)
        fullContent == IF Truthy(body) THEN signature \o body ELSE signature
    IN [text |-> fullContent, startLine |-> start, endLine |-> endLine,
        tokenCount |-> estimateTokens(fullContent), type |-> cur.type,
        signature |-> TrimSlice(signature[1], 100)]

\* whether finalizeChunk pushes the chunk (only non-trivial chunks)
AboveFloor(text) == StrLen(Trim(text)) > FloorLen

\* finalizeChunk that leaves the attribute buffer as it is
finalizeChunkKeepBuffer(m, endLine) ==
    IF m.currentChunk = NoChunk THEN m
    ELSE LET c == BuiltChunk(m.currentChunk, m.attributeLines, endLine)
         IN [m EXCEPT !.chunks = IF AboveFloor(c.text) THEN Append(@, c) ELSE @,
                      !.currentChunk = NoChunk]

\* finalizeChunk(endLine) on the scan state m = [state, currentChunk,
\* attributeLines, chunks]
finalizeChunk(m, endLine) ==
    IF m.currentChunk = NoChunk THEN m
    ELSE LET c == BuiltChunk(m.currentChunk, m.attributeLines, endLine)
         IN [m EXCEPT !.chunks = IF AboveFloor(c.text) THEN Append(@, c) ELSE @,
                      !.currentChunk = NoChunk,
                      !.attributeLines = <<>>]

\* IdleStep without the single-line enum case: every type definition opens
\* a body
IdleStepNoOneLineEnum(m, line, lineNum) ==
    IF attribute(line)
    THEN [m EXCEPT !.attributeLines = Append(@, [lineNum |-> lineNum, text |-> line])]
    ELSE IF classOrStruct(line)
    THEN LET opened == [m EXCEPT !.currentChunk =
                            startChunk(lineNum, line, line.ind, TypeWord(line), TRUE)]
         IN [opened EXCEPT !.state = "IN_BODY"]
    ELSE IF moduleDecl(line)
    THEN [m EXCEPT !.currentChunk = startChunk(lineNum, line, line.ind, "module", TRUE),
                   !.state = "IN_BODY"]
    ELSE IF extensionStart(line)
    THEN IF signatureEnd(line)
         THEN [m EXCEPT !.currentChunk =
                            startChunk(lineNum, line, line.ind, "extension", TRUE),
                        !.state = "IN_BODY"]
         ELSE [m EXCEPT !.currentChunk =
                            startChunk(lineNum, line, line.ind, "extension", FALSE),
                        !.state = "IN_SIGNATURE"]
    ELSE IF simpleFunction(line)
    THEN [m EXCEPT !.currentChunk = startChunk(lineNum, line, line.ind, "function", TRUE),
                   !.state = "IN_BODY"]
    ELSE IF functionStart(line) /\ ~simpleFunction(line)
    THEN [m EXCEPT !.currentChunk = startChunk(lineNum, line, line.ind, "function", FALSE),
                   !.state = "IN_SIGNATURE"]
    ELSE IF m.attributeLines # <<>> /\ ~attribute(line) /\ ~isBlankOrComment(line)
    THEN [m EXCEPT !.attributeLines = <<>>]
    ELSE m

\* IdleStep that finalizes a single-line function header on its own line and
\* stays in IDLE
IdleStepSimpleFnImmediate(m, line, lineNum) ==
    IF attribute(line)
    THEN [m EXCEPT !.attributeLines = Append(@, [lineNum |-> lineNum, text |-> line])]
    ELSE IF classOrStruct(line)
    THEN LET opened == [m EXCEPT !.currentChunk =
                            startChunk(lineNum, line, line.ind, TypeWord(line), TRUE)]
         IN IF TypeWord(line) = "enum" /\ HasBraces(line)
            THEN finalizeChunk(opened, lineNum)
            ELSE [opened EXCEPT !.state = "IN_BODY"]
    ELSE IF moduleDecl(line)
    THEN [m EXCEPT !.currentChunk = startChunk(lineNum, line, line.ind, "module", TRUE),
                   !.state = "IN_BODY"]
    ELSE IF extensionStart(line)
    THEN IF signatureEnd(line)
         THEN [m EXCEPT !.currentChunk =
                            startChunk(lineNum, line, line.ind, "extension", TRUE),
                        !.state = "IN_BODY"]
         ELSE [m EXCEPT !.currentChunk =
                            startChunk(lineNum, line, line.ind, "extension", FALSE),
                        !.state = "IN_SIGNATURE"]
    ELSE IF simpleFunction(line)
    THEN finalizeChunk([m EXCEPT !.currentChunk =
                            startChunk(lineNum, line, line.ind, "function", TRUE)],
                       lineNum)
    ELSE IF functionStart(line) /\ ~simpleFunction(line)
    THEN [m EXCEPT !.currentChunk = startChunk(lineNum, line, line.ind, "function", FALSE),
                   !.state = "IN_SIGNATURE"]
    ELSE IF m.attributeLines # <<>> /\ ~attribute(line) /\ ~isBlankOrComment(line)
    THEN [m EXCEPT !.attributeLines = <<>>]
    ELSE m

\* the IDLE part of one loop iteration (source lines 210-287)
IdleStep(m, line, lineNum) ==
    IF attribute(line)
    THEN [m EXCEPT !.attributeLines = Append(@, [lineNum |-> lineNum, text |-> line])]
    ELSE IF classOrStruct(line)
    THEN LET opened == [m EXCEPT !.currentChunk =
                            startChunk(lineNum, line, line.ind, TypeWord(line), TRUE)]
         IN IF TypeWord(line) = "enum" /\ HasBraces(line)
            THEN finalizeChunk(opened, lineNum)
            ELSE [opened EXCEPT !.state = "IN_BODY"]
    ELSE IF moduleDecl(line)
    THEN [m EXCEPT !.currentChunk = startChunk(lineNum, line, line.ind, "module", TRUE),
                   !.state = "IN_BODY"]
    ELSE IF extensionStart(line)
    THEN IF signatureEnd(line)
         THEN [m EXCEPT !.currentChunk =
                            startChunk(lineNum, line, line.ind, "extension", TRUE),
                        !.state = "IN_BODY"]
         ELSE [m EXCEPT !.currentChunk =
                            startChunk(lineNum, line, line.ind, "extension", FALSE),
                        !.state = "IN_SIGNATURE"]
    ELSE IF simpleFunction(line)
    THEN [m EXCEPT !.currentChunk = startChunk(lineNum, line, line.ind, "function", TRUE),
                   !.state = "IN_BODY"]
    ELSE IF functionStart(line) /\ ~simpleFunction(line)
    THEN [m EXCEPT !.currentChunk = startChunk(lineNum, line, line.ind, "function", FALSE),
                   !.state = "IN_SIGNATURE"]
    ELSE IF m.attributeLines # <<>> /\ ~attribute(line) /\ ~isBlankOrComment(line)
    THEN [m EXCEPT !.attributeLines = <<>>]
    ELSE m

\* SignatureStep that treats every terminated header as header-only: the
\* chunk is finalized at the terminator line
SignatureStepHeaderOnly(m, line, lineNum) ==
    LET pushed == [m EXCEPT !.currentChunk.signatureLines = Append(@, line)]
    IN IF signatureEnd(line) \/ interfaceMethodEnd(line)
       THEN [finalizeChunk(pushed, lineNum) EXCEPT !.state = "IDLE"]
       ELSE pushed

\* SignatureStep whose header-only finalization does not ask for the kind
\* interface-method
SignatureStepAnyKind(m, line, lineNum) ==
    LET pushed == [m EXCEPT !.currentChunk.signatureLines = Append(@, line)]
    IN IF signatureEnd(line)
       THEN [pushed EXCEPT !.currentChunk.hasBody = TRUE, !.state = "IN_BODY"]
       ELSE IF interfaceMethodEnd(line)
       THEN [finalizeChunk(pushed, lineNum) EXCEPT !.state = "IDLE"]
       ELSE pushed

\* the IN_SIGNATURE part of one loop iteration (source lines 191-205)
SignatureStep(m, line, lineNum) ==
    LET pushed == [m EXCEPT !.currentChunk.signatureLines = Append(@, line)]
    IN IF signatureEnd(line)
       THEN [pushed EXCEPT !.currentChunk.hasBody = TRUE, !.state = "IN_BODY"]
       ELSE IF interfaceMethodEnd(line) /\ m.currentChunk.type = "interface-method"
       THEN [finalizeChunk(pushed, lineNum) EXCEPT !.state = "IDLE"]
       ELSE pushed

\* BodyEnds that lets a line at the base indentation itself stay in the body
BodyEndsBelowBase(m, line) ==
    ~isBlankOrComment(line) /\ getIndent(line) < m.currentChunk.baseIndent

\* the body-boundary test of IN_BODY (source line 176)
BodyEnds(m, line) ==
    ~isBlankOrComment(line) /\ getIndent(line) <= m.currentChunk.baseIndent

\* a dereference of currentChunk while it is null raises a TypeError
Throws(m) == m.state \in {"IN_BODY", "IN_SIGNATURE"} /\ m.currentChunk = NoChunk

\* LoopBody with a body finalized at the line that ends it instead of the
\* line before
LoopBodyLateEnd(m, line, lineNum) ==
    IF m.state = "IDLE" /\ (using(line) \/ emptyOrWhitespace(line)) THEN m
    ELSE IF m.state = "IDLE" /\ comment(line) /\ getIndent(line) = 0 THEN m
    ELSE IF m.state = "IN_BODY"
    THEN IF BodyEnds(m, line)
         THEN IdleStep([finalizeChunk(m, lineNum) EXCEPT !.state = "IDLE"],
                       line, lineNum)
         ELSE [m EXCEPT !.currentChunk.bodyLines = Append(@, line)]
    ELSE IF m.state = "IN_SIGNATURE" THEN SignatureStep(m, line, lineNum)
    ELSE IdleStep(m, line, lineNum)

\* LoopBody that leaves the state at IN_BODY when a body ends
LoopBodyNoIdle(m, line, lineNum) ==
    IF m.state = "IDLE" /\ (using(line) \/ emptyOrWhitespace(line)) THEN m
    ELSE IF m.state = "IDLE" /\ comment(line) /\ getIndent(line) = 0 THEN m
    ELSE IF m.state = "IN_BODY"
    THEN IF BodyEnds(m, line)
         THEN IdleStep(finalizeChunk(m, lineNum - 1), line, lineNum)
         ELSE [m EXCEPT !.currentChunk.bodyLines = Append(@, line)]
    ELSE IF m.state = "IN_SIGNATURE" THEN SignatureStep(m, line, lineNum)
    ELSE IdleStep(m, line, lineNum)

\* LoopBody in which a blank line read in IDLE empties the attribute buffer
LoopBodyBlankDiscards(m, line, lineNum) ==
    IF m.state = "IDLE" /\ emptyOrWhitespace(line)
    THEN [m EXCEPT !.attributeLines = <<>>]
    ELSE IF m.state = "IDLE" /\ using(line) THEN m
    ELSE IF m.state = "IDLE" /\ comment(line) /\ getIndent(line) = 0 THEN m
    ELSE IF m.state = "IN_BODY"
    THEN IF BodyEnds(m, line)
         THEN IdleStep([finalizeChunk(m, lineNum - 1) EXCEPT !.state = "IDLE"],
                       line, lineNum)
         ELSE [m EXCEPT !.currentChunk.bodyLines = Append(@, line)]
    ELSE IF m.state = "IN_SIGNATURE" THEN SignatureStep(m, line, lineNum)
    ELSE IdleStep(m, line, lineNum)

\* LoopBody that consumes the line ending a body without processing it
\* under the IDLE rules
LoopBodyNoReprocess(m, line, lineNum) ==
    IF m.state = "IDLE" /\ (using(line) \/ emptyOrWhitespace(line)) THEN m
    ELSE IF m.state = "IDLE" /\ comment(line) /\ getIndent(line) = 0 THEN m
    ELSE IF m.state = "IN_BODY"
    THEN IF BodyEnds(m, line)
         THEN [finalizeChunk(m, lineNum - 1) EXCEPT !.state = "IDLE"]
         ELSE [m EXCEPT !.currentChunk.bodyLines = Append(@, line)]
    ELSE IF m.state = "IN_SIGNATURE" THEN SignatureStep(m, line, lineNum)
    ELSE IdleStep(m, line, lineNum)

\* one iteration of the scan loop (source lines 155-288) on a state that
\* does not throw
LoopBody(m, line, lineNum) ==
    IF m.state = "IDLE" /\ (using(line) \/ emptyOrWhitespace(line)) THEN m
    ELSE IF m.state = "IDLE" /\ comment(line) /\ getIndent(line) = 0 THEN m
    ELSE IF m.state = "IN_BODY"
    THEN IF BodyEnds(m, line)
         THEN IdleStep([finalizeChunk(m, lineNum - 1) EXCEPT !.state = "IDLE"],
                       line, lineNum)
         ELSE [m EXCEPT !.currentChunk.bodyLines = Append(@, line)]
    ELSE IF m.state = "IN_SIGNATURE" THEN SignatureStep(m, line, lineNum)
    ELSE IdleStep(m, line, lineNum)

\* ------------------------------------------------------------------------
\* extractNestedMethods
\* ------------------------------------------------------------------------
\* methodPattern /^(\s+)(\w+)(<[^>]+>)?\s*\(/: a function start behind at
\* least one whitespace character
methodPattern(l) == functionStart(l) /\ l.ind >= 1

\* signatureEndPattern, the same expression as PATTERNS.signatureEnd
signatureEndPattern(l) == signatureEnd(l)

\* lines[0].match(/^\s*(\w+)/), 'Unknown' when it does not match
NameOf(l) == IF KWord(l.k) = "" THEN "Unknown" ELSE KWord(l.k)

\* MemberChunk with the end line counted one past the member's last line
MemberChunkOffByOne(chunk, className, e) ==
    LET methodText == Join(e.methodLines)
        first == e.methodLines[1]
    IN [text |-> methodText,
        startLine |-> chunk.startLine + e.methodStart,
        endLine |-> chunk.startLine + e.methodStart + Len(e.methodLines),
        tokenCount |-> estimateTokens(methodText),
        type |-> "method",
        signature |-> Sig(<<className, "::">>, first.k, Min(KLen(first.k), 80)),
        parentClass |-> className]

\* MemberChunk that takes methodStart for a 1-based position in the text
MemberChunkOneBased(chunk, className, e) ==
    LET methodText == Join(e.methodLines)
        first == e.methodLines[1]
    IN [text |-> methodText,
        startLine |-> chunk.startLine + e.methodStart - 1,
        endLine |-> chunk.startLine + e.methodStart + Len(e.methodLines) - 2,
        tokenCount |-> estimateTokens(methodText),
        type |-> "method",
        signature |-> Sig(<<className, "::">>, first.k, Min(KLen(first.k), 80)),
        parentClass |-> className]

\* the member chunk pushed for the member held in e (source lines 378-392)
MemberChunk(chunk, className, e) ==
    LET methodText == Join(e.methodLines)
        first == e.methodLines[1]
    IN [text |-> methodText,
        startLine |-> chunk.startLine + e.methodStart,
        endLine |-> chunk.startLine + e.methodStart + Len(e.methodLines) - 1,
        tokenCount |-> estimateTokens(methodText),
        type |-> "method",
        signature |-> Sig(<<className, "::">>, first.k, Min(KLen(first.k), 80)),
        parentClass |-> className]

PushMember(chunk, className, e) ==
    IF AboveFloor(Join(e.methodLines))
    THEN Append(e.out, MemberChunk(chunk, className, e))
    ELSE e.out

\* MemberStep that takes the line ending a member into that member
MemberStepKeepsClosingLine(chunk, className, parentIndent, e, i, line) ==
    LET indent == getIndent(line)
        blankOrHash == line.k \in {"blank", "comment"}
    IN IF blankOrHash
       THEN IF e.methodStart # -1
            THEN [e EXCEPT !.methodLines = Append(@, line)]
            ELSE e
       ELSE IF methodPattern(line) /\ indent > parentIndent /\ e.methodStart = -1
       THEN [e EXCEPT !.methodStart = i, !.methodIndent = indent,
                      !.methodLines = <<line>>,
                      !.inMethodSignature = ~signatureEndPattern(line)]
       ELSE IF e.inMethodSignature /\ e.methodStart # -1
       THEN [e EXCEPT !.methodLines = Append(@, line),
                      !.inMethodSignature = IF signatureEndPattern(line) THEN FALSE ELSE @]
       ELSE IF e.methodStart # -1
       THEN IF indent <= e.methodIndent
            THEN LET pushed == [e EXCEPT !.out = PushMember(chunk, className,
                                    [e EXCEPT !.methodLines = Append(@, line)])]
                 IN IF methodPattern(line) /\ indent > parentIndent
                    THEN [pushed EXCEPT !.methodStart = i, !.methodIndent = indent,
                                        !.methodLines = <<line>>,
                                        !.inMethodSignature = ~signatureEndPattern(line)]
                    ELSE [pushed EXCEPT !.methodStart = -1, !.methodLines = <<>>,
                                        !.methodIndent = -1]
            ELSE [e EXCEPT !.methodLines = Append(@, line)]
       ELSE e

\* one iteration of the member scan on text line i (0-based), source
\* lines 339-410; e = [methodStart, methodLines, methodIndent,
\* inMethodSignature, out]
MemberStep(chunk, className, parentIndent, e, i, line) ==
    LET indent == getIndent(line)
        blankOrHash == line.k \in {"blank", "comment"}
    IN IF blankOrHash
       THEN IF e.methodStart # -1
            THEN [e EXCEPT !.methodLines = Append(@, line)]
            ELSE e
       ELSE IF methodPattern(line) /\ indent > parentIndent /\ e.methodStart = -1
       THEN [e EXCEPT !.methodStart = i, !.methodIndent = indent,
                      !.methodLines = <<line>>,
                      !.inMethodSignature = ~signatureEndPattern(line)]
       ELSE IF e.inMethodSignature /\ e.methodStart # -1
       THEN [e EXCEPT !.methodLines = Append(@, line),
                      !.inMethodSignature = IF signatureEndPattern(line) THEN FALSE ELSE @]
       ELSE IF e.methodStart # -1
       THEN IF indent <= e.methodIndent
            THEN LET pushed == [e EXCEPT !.out = PushMember(chunk, className, e)]
                 IN IF methodPattern(line) /\ indent > parentIndent
                    THEN [pushed EXCEPT !.methodStart = i, !.methodIndent = indent,
                                        !.methodLines = <<line>>,
                                        !.inMethodSignature = ~signatureEndPattern(line)]
                    ELSE [pushed EXCEPT !.methodStart = -1, !.methodLines = <<>>,
                                        !.methodIndent = -1]
            ELSE [e EXCEPT !.methodLines = Append(@, line)]
       ELSE e

RECURSIVE MemberScan(_, _, _, _, _, _)
MemberScan(chunk, className, parentIndent, textLines, e, i) ==
    IF i >= Len(textLines) THEN e
    ELSE MemberScan(chunk, className, parentIndent, textLines,
                    MemberStep(chunk, className, parentIndent, e, i, textLines[i + 1]),
                    i + 1)

\* MembersOf that scans a chunk of any kind
MembersOfAnyKind(chunk) ==
    IF Len(chunk.text) < 3 THEN <<>>
    ELSE LET className == NameOf(chunk.text[1])
             parentIndent == getIndent(chunk.text[1])
             e0 == [methodStart |-> -1, methodLines |-> <<>>, methodIndent |-> -1,
                    inMethodSignature |-> FALSE, out |-> <<>>]
             e == MemberScan(chunk, className, parentIndent, chunk.text, e0, 1)
         IN IF e.methodStart # -1 /\ Len(e.methodLines) > 0
            THEN PushMember(chunk, className, e)
            ELSE e.out

\* the member chunks extracted from one chunk (source lines 321-429)
MembersOf(chunk) ==
    IF chunk.type # "class" /\ chunk.type # "struct" THEN <<>>
    ELSE IF Len(chunk.text) < 3 THEN <<>>
    ELSE LET className == NameOf(chunk.text[1])
             parentIndent == getIndent(chunk.text[1])
             e0 == [methodStart |-> -1, methodLines |-> <<>>, methodIndent |-> -1,
                    inMethodSignature |-> FALSE, out |-> <<>>]
             e == MemberScan(chunk, className, parentIndent, chunk.text, e0, 1)
         IN IF e.methodStart # -1 /\ Len(e.methodLines) > 0
            THEN PushMember(chunk, className, e)
            ELSE e.out

\* extractNestedMethods that puts the members in place of their parent
RECURSIVE extractNestedMethodsReplacing(_)
extractNestedMethodsReplacing(cs) ==
    IF cs = <<>> THEN <<>>
    ELSE (IF MembersOf(cs[1]) = <<>> THEN <<cs[1]>> ELSE MembersOf(cs[1]))
             \o extractNestedMethodsReplacing(Tail(cs))

RECURSIVE extractNestedMethods(_)
extractNestedMethods(cs) ==
    IF cs = <<>> THEN <<>>
    ELSE <<cs[1]>> \o MembersOf(cs[1]) \o extractNestedMethods(Tail(cs))

\* ------------------------------------------------------------------------
\* applyTokenLimits
\* ------------------------------------------------------------------------
\* WithinBudget that compares with the target itself
WithinBudgetTarget(chunk, targetTokens) == chunk.tokenCount <= targetTokens

\* chunk.tokenCount <= targetTokens * 1.5
WithinBudget(chunk, targetTokens) == 2 * chunk.tokenCount <= 3 * targetTokens

Continued(sig) == [sig EXCEPT !.pre = <<"(continued) ">> \o @]

\* chunk.signature || lines[0]
SignatureLine(chunk) ==
    IF chunk.signature.pre = <<>> /\ chunk.signature.n = 0
    THEN [pre |-> <<>>, k |-> chunk.text[1].k, n |-> LineLen(chunk.text[1])]
    ELSE chunk.signature

\* OverlapScan that always carries the last line over, whatever it costs
OverlapScanLastLine(currentLines, overlapTokens, j, overlapLines, overlapCount) ==
    IF j >= 0
    THEN [lines |-> <<currentLines[j + 1]>>,
          count |-> estimateTokens(<<currentLines[j + 1]>>)]
    ELSE [lines |-> overlapLines, count |-> overlapCount]

\* the backward overlap scan (source lines 476-484) from index j (0-based)
RECURSIVE OverlapScan(_, _, _, _, _)
OverlapScan(currentLines, overlapTokens, j, overlapLines, overlapCount) ==
    IF j >= 0 /\ overlapCount < overlapTokens
    THEN LET lt == estimateTokens(<<currentLines[j + 1]>>)
         IN IF overlapCount + lt <= overlapTokens
            THEN OverlapScan(currentLines, overlapTokens, j - 1,
                             <<currentLines[j + 1]>> \o overlapLines, overlapCount + lt)
            ELSE [lines |-> overlapLines, count |-> overlapCount]
    ELSE [lines |-> overlapLines, count |-> overlapCount]

\* a segment record (source lines 466-473 and 499-506); result is the
\* whole output list built so far
Segment(chunk, w, endLine, result) ==
    [text |-> Join(w.currentLines), startLine |-> w.startLine, endLine |-> endLine,
     tokenCount |-> w.currentTokens, type |-> chunk.type,
     signature |-> IF Len(result) = 0 THEN SignatureLine(chunk)
                   ELSE Continued(SignatureLine(chunk))]

\* SplitLoop that emits the segment only once the running count itself has
\* passed the target
RECURSIVE SplitLoopLateFlush(_, _, _, _, _)
SplitLoopLateFlush(chunk, targetTokens, overlapTokens, w, i) ==
    IF i >= Len(chunk.text) THEN w
    ELSE LET line == chunk.text[i + 1]
             lineTokens == estimateTokens(<<line>>)
             flushed ==
                 IF w.currentTokens > targetTokens /\ Len(w.currentLines) > 0
                 THEN LET ov == OverlapScan(w.currentLines, overlapTokens,
                                            Len(w.currentLines) - 1, <<>>, 0)
                      IN [currentLines |-> ov.lines, currentTokens |-> ov.count,
                          startLine |-> chunk.startLine + i - Len(ov.lines),
                          result |-> Append(w.result,
                                Segment(chunk, w, w.startLine + Len(w.currentLines) - 1,
                                        w.result))]
                 ELSE w
         IN SplitLoopLateFlush(chunk, targetTokens, overlapTokens,
                      [flushed EXCEPT !.currentLines = Append(@, line),
                                      !.currentTokens = @ + lineTokens],
                      i + 1)

\* SplitLoop that leaves the start line of the running segment where it
\* was when a segment is emitted
RECURSIVE SplitLoopStaleStart(_, _, _, _, _)
SplitLoopStaleStart(chunk, targetTokens, overlapTokens, w, i) ==
    IF i >= Len(chunk.text) THEN w
    ELSE LET line == chunk.text[i + 1]
             lineTokens == estimateTokens(<<line>>)
             flushed ==
                 IF w.currentTokens + lineTokens > targetTokens /\ Len(w.currentLines) > 0
                 THEN LET ov == OverlapScan(w.currentLines, overlapTokens,
                                            Len(w.currentLines) - 1, <<>>, 0)
                      IN [currentLines |-> ov.lines, currentTokens |-> ov.count,
                          startLine |-> w.startLine,
                          result |-> Append(w.result,
                                Segment(chunk, w, w.startLine + Len(w.currentLines) - 1,
                                        w.result))]
                 ELSE w
         IN SplitLoopStaleStart(chunk, targetTokens, overlapTokens,
                      [flushed EXCEPT !.currentLines = Append(@, line),
                                      !.currentTokens = @ + lineTokens],
                      i + 1)

\* the split loop over the lines of one oversized chunk (source lines
\* 459-493); w = [currentLines, currentTokens, startLine, result]
RECURSIVE SplitLoop(_, _, _, _, _)
SplitLoop(chunk, targetTokens, overlapTokens, w, i) ==
    IF i >= Len(chunk.text) THEN w
    ELSE LET line == chunk.text[i + 1]
             lineTokens == estimateTokens(<<line>>)
             flushed ==
                 IF w.currentTokens + lineTokens > targetTokens /\ Len(w.currentLines) > 0
                 THEN LET ov == OverlapScan(w.currentLines, overlapTokens,
                                            Len(w.currentLines) - 1, <<>>, 0)
                      IN [currentLines |-> ov.lines, currentTokens |-> ov.count,
                          startLine |-> chunk.startLine + i - Len(ov.lines),
                          result |-> Append(w.result,
                                Segment(chunk, w, w.startLine + Len(w.currentLines) - 1,
                                        w.result))]
                 ELSE w
         IN SplitLoop(chunk, targetTokens, overlapTokens,
                      [flushed EXCEPT !.currentLines = Append(@, line),
                                      !.currentTokens = @ + lineTokens],
                      i + 1)

\* SplitChunk that forgets the lines left over when the loop ends
SplitChunkNoRemainder(chunk, targetTokens, overlapTokens, result) ==
    IF WithinBudget(chunk, targetTokens) THEN Append(result, chunk)
    ELSE SplitLoop(chunk, targetTokens, overlapTokens,
                   [currentLines |-> <<>>, currentTokens |-> 0,
                    startLine |-> chunk.startLine, result |-> result], 0).result

\* what one chunk adds to the output list result
SplitChunk(chunk, targetTokens, overlapTokens, result) ==
    IF WithinBudget(chunk, targetTokens) THEN Append(result, chunk)
    ELSE LET w == SplitLoop(chunk, targetTokens, overlapTokens,
                            [currentLines |-> <<>>, currentTokens |-> 0,
                             startLine |-> chunk.startLine, result |-> result], 0)
         IN IF Len(w.currentLines) > 0 /\ AboveFloor(Join(w.currentLines))
            THEN Append(w.result, Segment(chunk, w, chunk.endLine, w.result))
            ELSE w.result

RECURSIVE SplitAll(_, _, _, _)
SplitAll(cs, targetTokens, overlapTokens, result) ==
    IF cs = <<>> THEN result
    ELSE SplitAll(Tail(cs), targetTokens, overlapTokens,
                  SplitChunk(cs[1], targetTokens, overlapTokens, result))

applyTokenLimits(cs, targetTokens, overlapTokens) ==
    SplitAll(cs, targetTokens, overlapTokens, <<>>)

\* ------------------------------------------------------------------------
\* State of the module: the locals of the running invocation of
\* chunkVerseFile and a record of the invocations that returned
\* ------------------------------------------------------------------------
VARIABLES
    lines,            \* content.split(/\r?\n/)
    targetTokens,     \* getChunkingParams(config.embeddingModel)
    overlapTokens,
    i,                \* number of lines the scan loop has consumed
    state,            \* 'IDLE', 'IN_SIGNATURE', 'IN_BODY'
    currentChunk,     \* the open builder, NoChunk when null
    attributeLines,   \* buffered [lineNum, text] of @attribute lines
    chunks,           \* output of the Segmenter pass
    chunksWithNested, \* output of extractNestedMethods
    result,           \* the returned list
    pc,               \* "scan", "extract", "split", "done", "threw"
    returned          \* [lines, targetTokens, overlapTokens, result] of the
                      \* invocations that returned before this one

vars == <<lines, targetTokens, overlapTokens, i, state, currentChunk,
          attributeLines, chunks, chunksWithNested, result, pc, returned>>

\* State of the server process (index.js): its module-level variables, the
\* position of the initialization body and of main, and the requests
VARIABLES
    workspaceIndex,        \* args.findIndex(--workspace): -1 when not given
    workspaceDir,          \* the active workspace directory
    config,                \* NoConfig when null
    isInitialized,
    initializationPromise, \* "null", "pending", "fulfilled", "rejected"
    features,              \* features[k].instance is set (TRUE) or null (FALSE)
    body,                  \* [at, dir]: where the initialization body stands
                           \* and the directory it passed to loadConfig
    mainPc,                \* "connect" before main went past connect, "ready"
    requests,              \* the requests received: [kind, at, rootPath, name]
    started,               \* how many times the initialization body started
    dispatched             \* [isInitialized, instance] seen at each handler call

serverVars == <<workspaceIndex, workspaceDir, config, isInitialized,
                initializationPromise, features, body, mainPc, requests,
                started, dispatched>>

NoConfig == [null |-> TRUE]

\* the tools of the feature registry
Tools == 1..7

\* the server as it is before its process has run: the chunker is a
\* library the server's state does not enter
ServerNotStarted ==
    /\ workspaceIndex = -1
    /\ workspaceDir = "cwd"
    /\ config = NoConfig
    /\ isInitialized = FALSE
    /\ initializationPromise = "null"
    /\ features = [k \in Tools |-> FALSE]
    /\ body = [at |-> "idle", dir |-> "cwd"]
    /\ mainPc = "connect"
    /\ requests = <<>>
    /\ started = 0
    /\ dispatched = <<>>

\* ------------------------------------------------------------------------
\* Inputs tried
\* ------------------------------------------------------------------------
MaxLines == 3
MaxClassLines == 5
MaxFnLines == 5

\* a broad mix of line shapes, for short files
Alphabet ==
    {L("blank", 0), L("comment", 4), L("using", 0), L("attr", 0), L("attr", 4),
     L("enum1", 0), L("enum1", 4), L("enumS", 0), L("class", 0), L("classS", 0),
     L("module", 0), L("ext", 0), L("simpleFn", 4), L("fnOpen", 0),
     L("sigEnd", 0), L("stmt", 8), L("x", 0)}

\* a class with attributes, methods and their bodies
ClassAlphabet ==
    {L("attr", 0), L("blank", 0), L("class", 0), L("simpleFn", 4),
     L("stmt", 8), L("x", 0)}

\* functions with multi-line headers
FnAlphabet ==
    {L("fnOpen", 0), L("fnOpenS", 0), L("x", 4), L("sigEnd", 0),
     L("sigEndS", 0), L("stmt", 4)}

MaxIfaceLines == 3

\* an interface and header-only methods
IfaceAlphabet ==
    {L("iface", 0), L("ifaceMeth", 4), L("ifaceMeth", 0), L("blank", 0), L("x", 0)}

SeqsUpTo(A, n) == UNION {[1..m -> A] : m \in 1..n}

MaxNestedLines == 3

\* functions whose one-line header has a parameter of a parenthesized type
NestedAlphabet ==
    {L("fnNested", 0), L("simpleFn", 0), L("stmt", 4), L("x", 0)}

MaxTabLines == 3

\* functions indented with tab characters beside functions indented with
\* spaces
TabAlphabet ==
    {Tabbed("simpleFn", 1), Tabbed("stmt", 2), L("simpleFn", 2), L("stmt", 4),
     L("x", 0)}

MaxDeepLines == 4

\* a class whose body holds fields and methods and, one level below them,
\* lines of the shape of a method header
DeepAlphabet ==
    {L("class", 0), L("stmt", 4), L("simpleFn", 4), L("simpleFn", 8),
     L("stmt", 12)}

Inputs ==
    SeqsUpTo(Alphabet, MaxLines) \cup SeqsUpTo(ClassAlphabet, MaxClassLines)
        \cup SeqsUpTo(FnAlphabet, MaxFnLines)
        \cup SeqsUpTo(IfaceAlphabet, MaxIfaceLines)
        \cup SeqsUpTo(NestedAlphabet, MaxNestedLines)
        \cup SeqsUpTo(TabAlphabet, MaxTabLines)
        \cup SeqsUpTo(DeepAlphabet, MaxDeepLines)

\* the locals of chunkVerseFile before the scan loop (source lines 93-102)
Prologue(input, c) ==
    [lines |-> input, targetTokens |-> c.targetTokens,
     overlapTokens |-> c.overlapTokens, chunks |-> <<>>, state |-> "IDLE",
     currentChunk |-> NoChunk, attributeLines |-> <<>>]

InitOn(inputs) ==
    /\ \E input \in inputs, c \in Configs :
          LET p == Prologue(input, c)
          IN /\ lines = p.lines
             /\ targetTokens = p.targetTokens
             /\ overlapTokens = p.overlapTokens
             /\ chunks = p.chunks
             /\ state = p.state
             /\ currentChunk = p.currentChunk
             /\ attributeLines = p.attributeLines
    /\ i = 0
    /\ chunksWithNested = <<>>
    /\ result = <<>>
    /\ pc = "scan"
    /\ returned = <<>>
    /\ ServerNotStarted

Init == InitOn(Inputs)

Machine == [state |-> state, currentChunk |-> currentChunk,
            attributeLines |-> attributeLines, chunks |-> chunks]

SetMachine(m) ==
    /\ state' = m.state
    /\ currentChunk' = m.currentChunk
    /\ attributeLines' = m.attributeLines
    /\ chunks' = m.chunks

\* one iteration of the for loop over lines (source lines 155-288)
ScanLine ==
    /\ pc = "scan"
    /\ i < Len(lines)
    /\ IF Throws(Machine)
       THEN /\ pc' = "threw"
            /\ UNCHANGED <<i, state, currentChunk, attributeLines, chunks>>
       ELSE /\ SetMachine(LoopBody(Machine, lines[i + 1], i + 1))
            /\ i' = i + 1
            /\ pc' = pc
    /\ UNCHANGED <<lines, targetTokens, overlapTokens, chunksWithNested, result,
                   returned>>
    /\ UNCHANGED serverVars

\* EndOfInput that forgets the builder still open at the end of the file
EndOfInputDropsOpen ==
    /\ pc = "scan"
    /\ i = Len(lines)
    /\ currentChunk' = NoChunk
    /\ pc' = "extract"
    /\ UNCHANGED <<lines, targetTokens, overlapTokens, i, chunksWithNested, result,
                   returned, state, attributeLines, chunks>>
    /\ UNCHANGED serverVars

\* EndOfInput that also puts the machine back in IDLE
EndOfInputToIdle ==
    /\ pc = "scan"
    /\ i = Len(lines)
    /\ SetMachine([finalizeChunk(Machine, Len(lines)) EXCEPT !.state = "IDLE"])
    /\ pc' = "extract"
    /\ UNCHANGED <<lines, targetTokens, overlapTokens, i, chunksWithNested, result,
                   returned>>
    /\ UNCHANGED serverVars

\* end of the loop: finalize any remaining chunk (source lines 290-293)
EndOfInput ==
    /\ pc = "scan"
    /\ i = Len(lines)
    /\ SetMachine(finalizeChunk(Machine, Len(lines)))
    /\ pc' = "extract"
    /\ UNCHANGED <<lines, targetTokens, overlapTokens, i, chunksWithNested, result,
                   returned>>
    /\ UNCHANGED serverVars

\* const chunksWithNested = extractNestedMethods(chunks) (source line 296)
ExtractNestedMethods ==
    /\ pc = "extract"
    /\ chunksWithNested' = extractNestedMethods(chunks)
    /\ pc' = "split"
    /\ UNCHANGED <<lines, targetTokens, overlapTokens, i, state, currentChunk,
                   attributeLines, chunks, result, returned>>
    /\ UNCHANGED serverVars

\* return applyTokenLimits(chunksWithNested, ...) (source line 299)
ApplyTokenLimits ==
    /\ pc = "split"
    /\ result' = applyTokenLimits(chunksWithNested, targetTokens, overlapTokens)
    /\ pc' = "done"
    /\ UNCHANGED <<lines, targetTokens, overlapTokens, i, state, currentChunk,
                   attributeLines, chunks, chunksWithNested, returned>>
    /\ UNCHANGED serverVars

Next == ScanLine \/ EndOfInput \/ ExtractNestedMethods \/ ApplyTokenLimits

Spec == Init /\ [][Next]_vars

\* A call is straight-line synchronous code: while it has neither returned
\* nor thrown it executes its next statement, which moves the loop index or
\* the program counter.  Executes is that step seen on pc and i alone;
\* every step of Next taken while Busy is one.
Busy == pc \in {"scan", "extract", "split"}

Executes ==
    /\ Busy
    /\ \E p \in {"scan", "extract", "split", "done", "threw"}, n \in 0..Len(lines) :
          /\ pc' = p
          /\ i' = n
          /\ (p # pc \/ n # i)

MaxFairLines == 3

FairAlphabet ==
    {L("attr", 0), L("enum1", 0), L("class", 0), L("fnOpen", 0),
     L("sigEnd", 0), L("stmt", 4), L("x", 0)}

FairInit == InitOn(SeqsUpTo(FairAlphabet, MaxFairLines))

FairSpec == FairInit /\ [][Next]_vars /\ WF_<<pc, i>>(Executes)

\* ------------------------------------------------------------------------
\* Successive invocations in one process
\* ------------------------------------------------------------------------
MaxCalls == 2
MaxDetLines == 2

DetAlphabet == {L("attr", 0), L("class", 0), L("stmt", 4)}

DetInputs == SeqsUpTo(DetAlphabet, MaxDetLines)

InitDet == InitOn(DetInputs)

\* Invoke with the attribute buffer kept from the call before, as a buffer
\* declared at module level would be
InvokeKeepBuffer ==
    /\ pc = "done"
    /\ Len(returned) + 1 < MaxCalls
    /\ returned' = Append(returned,
            [lines |-> lines, targetTokens |-> targetTokens,
             overlapTokens |-> overlapTokens, result |-> result])
    /\ \E input \in DetInputs :
          LET p == Prologue(input, [targetTokens |-> targetTokens,
                                    overlapTokens |-> overlapTokens])
          IN /\ lines' = p.lines
             /\ targetTokens' = p.targetTokens
             /\ overlapTokens' = p.overlapTokens
             /\ chunks' = p.chunks
             /\ state' = p.state
             /\ currentChunk' = p.currentChunk
             /\ attributeLines' = attributeLines
    /\ i' = 0
    /\ chunksWithNested' = <<>>
    /\ result' = <<>>
    /\ pc' = "scan"
    /\ UNCHANGED serverVars

\* the next call of chunkVerseFile after one returned: every local is
\* created anew (source lines 93-102); the configuration is the read-only
\* one shared by the calls
Invoke ==
    /\ pc = "done"
    /\ Len(returned) + 1 < MaxCalls
    /\ returned' = Append(returned,
            [lines |-> lines, targetTokens |-> targetTokens,
             overlapTokens |-> overlapTokens, result |-> result])
    /\ \E input \in DetInputs :
          LET p == Prologue(input, [targetTokens |-> targetTokens,
                                    overlapTokens |-> overlapTokens])
          IN /\ lines' = p.lines
             /\ targetTokens' = p.targetTokens
             /\ overlapTokens' = p.overlapTokens
             /\ chunks' = p.chunks
             /\ state' = p.state
             /\ currentChunk' = p.currentChunk
             /\ attributeLines' = p.attributeLines
    /\ i' = 0
    /\ chunksWithNested' = <<>>
    /\ result' = <<>>
    /\ pc' = "scan"
    /\ UNCHANGED serverVars

NextDet == Next \/ Invoke

SpecDet == InitDet /\ [][NextDet]_vars

\* ------------------------------------------------------------------------
\* Calls whose overlap budget reaches or passes the target
\* ------------------------------------------------------------------------
MaxSplitLines == 5

SplitAlphabet == {L("class", 0), L("simpleFn", 4), L("stmt", 8), L("x", 8)}

\* {targetTokens, overlapTokens} pairs with the overlap below, at and above
\* the target
SplitConfigs ==
    {[targetTokens |-> 8, overlapTokens |-> 3],
     [targetTokens |-> 8, overlapTokens |-> 8],
     [targetTokens |-> 8, overlapTokens |-> 20]}

SplitInit ==
    /\ \E input \in SeqsUpTo(SplitAlphabet, MaxSplitLines), c \in SplitConfigs :
          LET p == Prologue(input, c)
          IN /\ lines = p.lines
             /\ targetTokens = p.targetTokens
             /\ overlapTokens = p.overlapTokens
             /\ chunks = p.chunks
             /\ state = p.state
             /\ currentChunk = p.currentChunk
             /\ attributeLines = p.attributeLines
    /\ i = 0
    /\ chunksWithNested = <<>>
    /\ result = <<>>
    /\ pc = "scan"
    /\ returned = <<>>
    /\ ServerNotStarted

SpecSplit == SplitInit /\ [][Next]_vars

\* ------------------------------------------------------------------------
\* The server process (index.js): lazy initialization and the request
\* handlers.  The process is single-threaded: a step is what runs between
\* two awaits.
\* ------------------------------------------------------------------------
MaxRequests == 3

\* rootPath of a handshake: "none" when the request names no file:// root
RootPaths == {"none", "rootA", "rootB"}

\* request.params.name of a tool call: 0 is the name of no tool
ToolNames == {0, 1}

\* the chunker is not running while the server is looked at
ChunkerNotCalled ==
    /\ lines = <<>>
    /\ targetTokens = 0
    /\ overlapTokens = 0
    /\ i = 0
    /\ state = "IDLE"
    /\ currentChunk = NoChunk
    /\ attributeLines = <<>>
    /\ chunks = <<>>
    /\ chunksWithNested = <<>>
    /\ result = <<>>
    /\ pc = "done"
    /\ returned = <<>>

\* the module-level state after the argument parsing (source lines
\* 728-772): --workspace absent, given with a path, or given without one
ServerInit ==
    /\ \E given \in {"absent", "path", "bare"} :
          /\ workspaceIndex = IF given = "absent" THEN -1 ELSE 0
          /\ workspaceDir = IF given = "path" THEN "cli" ELSE "cwd"
    /\ config = NoConfig
    /\ isInitialized = FALSE
    /\ initializationPromise = "null"
    /\ features = [k \in Tools |-> FALSE]
    /\ body = [at |-> "idle", dir |-> "cwd"]
    /\ mainPc = "connect"
    /\ requests = <<>>
    /\ started = 0
    /\ dispatched = <<>>
    /\ ChunkerNotCalled

\* ensureInitialized() that starts the body whenever initialization has not
\* completed, in flight or not
ensureInitializedNoPromiseCheck(dir) ==
    IF isInitialized
    THEN UNCHANGED <<initializationPromise, body, started>>
    ELSE /\ initializationPromise' = "pending"
         /\ body' = [at |-> "loadConfig", dir |-> dir]
         /\ started' = started + 1

\* the synchronous part of ensureInitialized() (source lines 833-848), run
\* while the workspace directory is dir: up to the first await of the body,
\* which has called loadConfig(workspaceDir) by then
ensureInitialized(dir) ==
    IF isInitialized
    THEN UNCHANGED <<initializationPromise, body, started>>
    ELSE IF initializationPromise # "null"
    THEN UNCHANGED <<initializationPromise, body, started>>
    ELSE /\ initializationPromise' = "pending"
         /\ body' = [at |-> "loadConfig", dir |-> dir]
         /\ started' = started + 1

\* main() past connect (source lines 1002-1011)
Main ==
    /\ mainPc = "connect"
    /\ mainPc' = "ready"
    /\ IF workspaceIndex # -1
       THEN ensureInitialized(workspaceDir)
       ELSE UNCHANGED <<initializationPromise, body, started>>
    /\ UNCHANGED <<workspaceIndex, workspaceDir, config, isInitialized, features,
                   requests, dispatched>>
    /\ UNCHANGED vars

\* config = await loadConfig(workspaceDir) returns (source line 849);
\* loadConfig catches its own errors (lib/config.js 71-137)
LoadConfigReturns ==
    /\ body.at = "loadConfig"
    /\ config' = [searchDirectory |-> body.dir]
    /\ body' = [body EXCEPT !.at = "createEmbedder"]
    /\ UNCHANGED <<workspaceIndex, workspaceDir, isInitialized,
                   initializationPromise, features, mainPc, requests, started,
                   dispatched>>
    /\ UNCHANGED vars

\* embedder = await createEmbedder(config) returns (source line 852)
CreateEmbedderReturns ==
    /\ body.at = "createEmbedder"
    /\ body' = [body EXCEPT !.at = "cacheLoad"]
    /\ UNCHANGED <<workspaceIndex, workspaceDir, config, isInitialized,
                   initializationPromise, features, mainPc, requests, started,
                   dispatched>>
    /\ UNCHANGED vars

\* await cache.load() returns and the body runs to its end (source lines
\* 859-907)
CacheLoadReturns ==
    /\ body.at = "cacheLoad"
    /\ features' = [k \in Tools |-> TRUE]
    /\ isInitialized' = TRUE
    /\ initializationPromise' = "fulfilled"
    /\ body' = [body EXCEPT !.at = "done"]
    /\ UNCHANGED <<workspaceIndex, workspaceDir, config, mainPc, requests, started,
                   dispatched>>
    /\ UNCHANGED vars

\* BodyFails that lets the next call start the body again
BodyFailsRetry ==
    /\ body.at \in {"createEmbedder", "cacheLoad"}
    /\ initializationPromise' = "null"
    /\ body' = [body EXCEPT !.at = "failed"]
    /\ UNCHANGED <<workspaceIndex, workspaceDir, config, isInitialized, features,
                   mainPc, requests, started, dispatched>>
    /\ UNCHANGED vars

\* createEmbedder or cache.load rejects: the body throws and its promise is
\* rejected; nothing resets initializationPromise
BodyFails ==
    /\ body.at \in {"createEmbedder", "cacheLoad"}
    /\ initializationPromise' = "rejected"
    /\ body' = [body EXCEPT !.at = "failed"]
    /\ UNCHANGED <<workspaceIndex, workspaceDir, config, isInitialized, features,
                   mainPc, requests, started, dispatched>>
    /\ UNCHANGED vars

\* what `await ensureInitialized()` waits for: nothing when initialization
\* has completed, the initialization promise otherwise
Awaited == IF isInitialized THEN "resolved" ELSE "promise"

\* Initialize that looks at the command line only
InitializeAnyTime(rootPath) ==
    /\ Len(requests) < MaxRequests
    /\ LET detect == workspaceIndex = -1 /\ rootPath # "none"
       IN /\ workspaceDir' = IF detect THEN rootPath ELSE workspaceDir
          /\ IF detect THEN ensureInitialized(rootPath)
             ELSE UNCHANGED <<initializationPromise, body, started>>
    /\ requests' = Append(requests, [kind |-> "initialize", at |-> "responded",
                                     rootPath |-> rootPath, name |-> 0,
                                     awaited |-> "nothing"])
    /\ UNCHANGED <<workspaceIndex, config, isInitialized, features, mainPc,
                   dispatched>>
    /\ UNCHANGED vars

\* the InitializeRequestSchema handler (source lines 916-962)
Initialize(rootPath) ==
    /\ Len(requests) < MaxRequests
    /\ LET detect == ~isInitialized /\ workspaceIndex = -1 /\ rootPath # "none"
       IN /\ workspaceDir' = IF detect THEN rootPath ELSE workspaceDir
          /\ IF detect THEN ensureInitialized(rootPath)
             ELSE UNCHANGED <<initializationPromise, body, started>>
    /\ requests' = Append(requests, [kind |-> "initialize", at |-> "responded",
                                     rootPath |-> rootPath, name |-> 0,
                                     awaited |-> "nothing"])
    /\ UNCHANGED <<workspaceIndex, config, isInitialized, features, mainPc,
                   dispatched>>
    /\ UNCHANGED vars

\* the ListToolsRequestSchema handler up to its await (source lines
\* 965-967)
ListTools ==
    /\ Len(requests) < MaxRequests
    /\ ensureInitialized(workspaceDir)
    /\ requests' = Append(requests, [kind |-> "listTools", at |-> "awaiting",
                                     rootPath |-> "none", name |-> 0,
                                     awaited |-> Awaited])
    /\ UNCHANGED <<workspaceIndex, workspaceDir, config, isInitialized, features,
                   mainPc, dispatched>>
    /\ UNCHANGED vars

\* the CallToolRequestSchema handler up to its await (source lines 981-983)
CallTool(name) ==
    /\ Len(requests) < MaxRequests
    /\ ensureInitialized(workspaceDir)
    /\ requests' = Append(requests, [kind |-> "callTool", at |-> "awaiting",
                                     rootPath |-> "none", name |-> name,
                                     awaited |-> Awaited])
    /\ UNCHANGED <<workspaceIndex, workspaceDir, config, isInitialized, features,
                   mainPc, dispatched>>
    /\ UNCHANGED vars

\* the handler of request r goes on after its await: it throws when the
\* awaited promise was rejected; a tool listing answers; a tool call hands
\* the request to the handler of the feature of that name, or answers
\* 'Unknown tool' (source lines 969-977 and 985-999)
AfterAwait(r) ==
    LET req == requests[r]
    IN IF req.awaited = "promise" /\ initializationPromise = "rejected"
       THEN /\ requests' = [requests EXCEPT ![r].at = "failed"]
            /\ dispatched' = dispatched
       ELSE IF req.kind = "callTool" /\ req.name \in Tools
       THEN /\ requests' = [requests EXCEPT ![r].at = "dispatched"]
            /\ dispatched' = Append(dispatched,
                    [request |-> r, isInitialized |-> isInitialized,
                     instance |-> features[req.name]])
       ELSE /\ requests' = [requests EXCEPT ![r].at = "responded"]
            /\ dispatched' = dispatched

\* Resume of a handler that does not wait for ensureInitialized()
ResumeUnawaited(r) ==
    /\ r \in 1..Len(requests)
    /\ requests[r].at = "awaiting"
    /\ AfterAwait(r)
    /\ UNCHANGED <<workspaceIndex, workspaceDir, config, isInitialized,
                   initializationPromise, features, body, mainPc, started>>
    /\ UNCHANGED vars

\* the awaited ensureInitialized() of request r has settled and the handler
\* resumes
Resume(r) ==
    /\ r \in 1..Len(requests)
    /\ requests[r].at = "awaiting"
    /\ requests[r].awaited = "promise" =>
          initializationPromise \in {"fulfilled", "rejected"}
    /\ AfterAwait(r)
    /\ UNCHANGED <<workspaceIndex, workspaceDir, config, isInitialized,
                   initializationPromise, features, body, mainPc, started>>
    /\ UNCHANGED vars

ServerNext ==
    \/ Main
    \/ LoadConfigReturns
    \/ CreateEmbedderReturns
    \/ CacheLoadReturns
    \/ BodyFails
    \/ \E rootPath \in RootPaths : Initialize(rootPath)
    \/ ListTools
    \/ \E name \in ToolNames : CallTool(name)
    \/ \E r \in 1..MaxRequests : Resume(r)

ServerSpec == ServerInit /\ [][ServerNext]_serverVars

\* ------------------------------------------------------------------------
\* Properties
\* ------------------------------------------------------------------------
Continues(c) == c.signature.pre # <<>> /\ c.signature.pre[1] = "(continued) "

\* C1: every chunk of the list chunkVerseFile returns, whichever pass made
\* it, has 1 <= startLine <= endLine <= number of lines of the input.
C1_LineRangeWithinFile ==
    pc = "done" =>
        \A j \in 1..Len(result) :
            /\ 1 <= result[j].startLine
            /\ result[j].startLine <= result[j].endLine
            /\ result[j].endLine <= Len(lines)

\* a returned list holding a segment of a split member chunk and a chunk
\* with an attached attribute
C1_Witness ==
    /\ pc = "done"
    /\ \E j \in 1..Len(result) : result[j].type = "method" /\ Continues(result[j])
    /\ \E j \in 1..Len(result) : result[j].text[1].k = "attr"

\* C2: the chunks the Segmenter pass emits have pairwise disjoint line
\* ranges: each chunk starts, attached attribute lines included, after the
\* end line of the chunk emitted before it.
C2_SegmenterChunksDisjoint ==
    \A j \in 2..Len(chunks) : chunks[j].startLine > chunks[j - 1].endLine

\* two Segmenter chunks, the second one starting at an attached attribute
\* right after the body of the first
C2_Witness ==
    /\ pc = "extract"
    /\ \E j \in 2..Len(chunks) :
          /\ chunks[j].text[1].k = "attr"
          /\ chunks[j].startLine = chunks[j - 1].endLine + 1
          /\ Len(chunks[j - 1].text) > 1

\* what a call that starts from fresh locals returns for an input
RECURSIVE ScanFrom(_, _, _)
ScanFrom(m, ls, n) ==
    IF n >= Len(ls) THEN m ELSE ScanFrom(LoopBody(m, ls[n + 1], n + 1), ls, n + 1)

FreshResult(ls, c) ==
    LET p == Prologue(ls, c)
        m == ScanFrom([state |-> p.state, currentChunk |-> p.currentChunk,
                       attributeLines |-> p.attributeLines, chunks |-> p.chunks],
                      ls, 0)
    IN applyTokenLimits(extractNestedMethods(finalizeChunk(m, Len(ls)).chunks),
                        c.targetTokens, c.overlapTokens)

\* C3: the list a call returns depends on its input text and configuration
\* only: it is the list a call from fresh locals returns, and it equals the
\* list any earlier call returned for the same input, whatever inputs the
\* calls in between were given.
C3_Deterministic ==
    pc = "done" =>
        /\ result = FreshResult(lines, [targetTokens |-> targetTokens,
                                        overlapTokens |-> overlapTokens])
        /\ \A h \in 1..Len(returned) :
              returned[h].lines = lines => returned[h].result = result

\* a call that returned chunks after a call on another input that ended
\* with an attribute still buffered
C3_Witness ==
    /\ pc = "done"
    /\ result # <<>>
    /\ \E h \in 1..Len(returned) :
          /\ returned[h].lines # lines
          /\ attribute(returned[h].lines[Len(returned[h].lines)])

\* a line no pattern of PATTERNS matches
NoPattern(l) ==
    ~(\/ classOrStruct(l) \/ moduleDecl(l) \/ extensionStart(l) \/ functionStart(l)
      \/ simpleFunction(l) \/ signatureEnd(l) \/ interfaceMethodEnd(l)
      \/ attribute(l) \/ comment(l) \/ using(l) \/ emptyOrWhitespace(l))

\* the scan is about to read a line
Reading == pc = "scan" /\ i < Len(lines)

\* the scan step on a line no pattern matches: the line is consumed; read
\* in IDLE it is skipped, read in IN_BODY it joins the open body when it is
\* deeper than the builder and closes the body otherwise
InertStep ==
    (Reading /\ NoPattern(lines[i + 1])) =>
        /\ pc' = "scan"
        /\ i' = i + 1
        /\ state = "IDLE" =>
              /\ state' = "IDLE"
              /\ currentChunk' = NoChunk
              /\ chunks' = chunks
        /\ (state = "IN_BODY" /\ lines[i + 1].ind > currentChunk.baseIndent) =>
              /\ state' = "IN_BODY"
              /\ currentChunk' =
                    [currentChunk EXCEPT !.bodyLines = Append(@, lines[i + 1])]
              /\ chunks' = chunks
        /\ (state = "IN_BODY" /\ lines[i + 1].ind <= currentChunk.baseIndent) =>
              /\ state' = "IDLE"
              /\ currentChunk' = NoChunk

\* C4: whatever the lines are, the scan never fails, reaches the end of the
\* input and the call returns a chunk list; a line that matches no pattern
\* is appended to the open body or skipped while IDLE.
C4_ScanNeverFailsOrStops ==
    /\ [](pc # "threw")
    /\ <>(pc = "done")
    /\ [][InertStep]_vars

\* a call that returned although unmatched lines were read in IDLE, inside
\* an open body and at the end of a body
C4_Witness ==
    /\ pc = "done"
    /\ Len(lines) >= 3
    /\ NoPattern(lines[1])
    /\ classOrStruct(lines[2])
    /\ NoPattern(lines[3])
    /\ chunks # <<>>

\* the step that leaves the scan loop at the end of the input
EofStep == pc = "scan" /\ i = Len(lines) /\ pc' = "extract"

\* everything a builder and the attribute buffer hold, in file order
Accumulated == AttrText(attributeLines) \o currentChunk.signatureLines
                   \o currentChunk.bodyLines

NonBlank(l) == l.k # "blank"

\* the texts of the non-blank lines of a string, in order
Code(str) ==
    LET sel == SelectSeq(str, NonBlank) IN [j \in 1..Len(sel) |-> sel[j].k]

\* the step emitted one chunk: it ends at the last line and holds every
\* non-blank line accumulated
EmitsAllAtEof ==
    /\ Len(chunks') = Len(chunks) + 1
    /\ SubSeq(chunks', 1, Len(chunks)) = chunks
    /\ chunks'[Len(chunks')].endLine = Len(lines)
    /\ Code(chunks'[Len(chunks')].text) = Code(Accumulated)

\* C5 as claimed: a builder open when the input is exhausted is finalized
\* with endLine equal to the last line number and a chunk holding
\* everything accumulated is emitted.
C5_AsClaimed ==
    [][(EofStep /\ currentChunk # NoChunk) => (currentChunk' = NoChunk /\ EmitsAllAtEof)]_vars

\* C5 (amended): a builder open when the input is exhausted is finalized
\* with endLine equal to the last line number; the chunk holding everything
\* accumulated is emitted when the accumulated text, trimmed, is longer
\* than 20 characters, and the builder is discarded without a chunk
\* otherwise.
C5_EofFinalizesAboveFloor ==
    [][(EofStep /\ currentChunk # NoChunk) =>
          /\ currentChunk' = NoChunk
          /\ IF StrLen(Trim(Accumulated)) > 20
             THEN EmitsAllAtEof
             ELSE chunks' = chunks]_vars

\* the input ended inside a header that was never terminated and the
\* header was emitted as a chunk ending at the last line
C5_Witness ==
    /\ pc = "extract"
    /\ state = "IN_SIGNATURE"
    /\ currentChunk = NoChunk
    /\ chunks # <<>>
    /\ chunks[Len(chunks)].endLine = Len(lines)
    /\ Len(chunks[Len(chunks)].text) > 1

\* the whole input is one function definition with a multi-line header:
\* a first line that opens the parameter list, continuation lines, the
\* first line t that matches the header terminator with the trailing
\* assignment marker, then lines deeper than the first header line
MultiLineFnEndingAt(ls, t) ==
    /\ functionStart(ls[1]) /\ ~simpleFunction(ls[1]) /\ ~signatureEnd(ls[1])
    /\ t \in 3..(Len(ls) - 1)
    /\ signatureEnd(ls[t])
    /\ \A j \in 2..(t - 1) : ~signatureEnd(ls[j])
    /\ \A j \in (t + 1)..Len(ls) : ls[j].ind > ls[1].ind

IsMultiLineFn(ls) == \E t \in 1..Len(ls) : MultiLineFnEndingAt(ls, t)

\* the Segmenter emitted exactly one chunk: a function spanning the whole
\* input whose signature is the first header line
OneFunctionChunk ==
    /\ Len(chunks) = 1
    /\ chunks[1].type = "function"
    /\ chunks[1].startLine = 1
    /\ chunks[1].endLine = Len(lines)
    /\ chunks[1].signature = Sig(<<>>, lines[1].k, KLen(lines[1].k))
    /\ lines[1].ind = 0

Scanned == pc \in {"extract", "split", "done"}

\* C6 as claimed: a function definition with a multi-line header followed
\* by deeper lines yields exactly one chunk of kind function, from the
\* first header line to the last body line, whose signature is the first
\* header line.
C6_AsClaimed == (Scanned /\ IsMultiLineFn(lines)) => OneFunctionChunk

\* C6 (amended): such a definition yields exactly one chunk of kind
\* function, from the first header line to the last body line, with the
\* first header line as signature, provided its text is longer than 20
\* characters; a shorter definition yields no chunk.
C6_MultiLineHeaderOneChunk ==
    (Scanned /\ IsMultiLineFn(lines)) =>
        IF StrLen(Trim(lines)) > 20 THEN OneFunctionChunk ELSE chunks = <<>>

\* a five-line definition (two continuation lines or two body lines) that
\* was emitted as one chunk
C6_Witness ==
    /\ pc = "extract"
    /\ Len(lines) = 5
    /\ IsMultiLineFn(lines)
    /\ OneFunctionChunk
    /\ Len(chunks[1].text) = 5

\* the scan reads, in IDLE with no buffered attributes, an enum definition
\* that has both braces on its line
ReadsOneLineEnum ==
    /\ Reading
    /\ state = "IDLE"
    /\ attributeLines = <<>>
    /\ classOrStruct(lines[i + 1])
    /\ TypeWord(lines[i + 1]) = "enum"
    /\ HasBraces(lines[i + 1])

\* the step emitted one chunk of kind enum for the line just read, with
\* the given text, and left the machine in IDLE without a builder
EmitsEnum(text) ==
    /\ Len(chunks') = Len(chunks) + 1
    /\ SubSeq(chunks', 1, Len(chunks)) = chunks
    /\ chunks'[Len(chunks')].type = "enum"
    /\ chunks'[Len(chunks')].startLine = i + 1
    /\ chunks'[Len(chunks')].endLine = i + 1
    /\ chunks'[Len(chunks')].text = text
    /\ state' = "IDLE"
    /\ currentChunk' = NoChunk

\* C7 as claimed: such a line yields exactly one chunk of kind enum with
\* startLine = endLine = that line and text equal to the line, and the
\* machine stays in IDLE.
C7_AsClaimed == [][ReadsOneLineEnum => EmitsEnum(<<lines[i + 1]>>)]_vars

\* C7 (amended): such a line yields exactly one chunk of kind enum with
\* startLine = endLine = that line and text equal to the line without its
\* leading whitespace, provided the trimmed line is longer than 20
\* characters; a shorter line yields no chunk. Either way the machine
\* stays in IDLE and the following line is not treated as its body.
C7_OneLineEnumChunk ==
    [][ReadsOneLineEnum =>
          IF KLen(lines[i + 1].k) > 20
          THEN EmitsEnum(<<L(lines[i + 1].k, 0)>>)
          ELSE chunks' = chunks /\ state' = "IDLE" /\ currentChunk' = NoChunk]_vars

\* a one-line enum followed by a deeper line: the enum is a chunk of its
\* own line only and the deeper line is no part of it
C7_Witness ==
    /\ pc = "extract"
    /\ Len(lines) >= 2
    /\ classOrStruct(lines[1]) /\ TypeWord(lines[1]) = "enum" /\ HasBraces(lines[1])
    /\ lines[2].ind > lines[1].ind /\ NoPattern(lines[2])
    /\ Len(chunks) = 1
    /\ chunks[1].type = "enum"
    /\ chunks[1].endLine = 1
    /\ Len(chunks[1].text) = 1

\* a line that starts a definition (the five checks of the IDLE state)
IsDefStart(l) ==
    \/ classOrStruct(l) \/ moduleDecl(l) \/ extensionStart(l)
    \/ simpleFunction(l) \/ functionStart(l)

\* the scan reads a line in IDLE while attributes are buffered
ReadsWithAttributes == Reading /\ state = "IDLE" /\ attributeLines # <<>>

\* the step appended a chunk to the Segmenter output
Emits == Len(chunks') = Len(chunks) + 1 /\ SubSeq(chunks', 1, Len(chunks)) = chunks

Emitted == chunks'[Len(chunks')]

\* blank and comment lines leave the buffer alone, a definition-start
\* opens a builder on its own indentation (or is a one-line enum, done at
\* once), and the buffer stays as it is while that builder is open
AttributesWaitForDefinition ==
    /\ (ReadsWithAttributes /\ isBlankOrComment(lines[i + 1])) =>
            attributeLines' = attributeLines /\ state' = "IDLE"
    /\ (ReadsWithAttributes /\ IsDefStart(lines[i + 1])) =>
            \/ /\ currentChunk' # NoChunk
               /\ currentChunk'.baseIndent = lines[i + 1].ind
               /\ attributeLines' = attributeLines
            \/ /\ TypeWord(lines[i + 1]) = "enum" /\ HasBraces(lines[i + 1])
               /\ currentChunk' = NoChunk
               /\ attributeLines' = <<>>
               /\ (Emits \/ chunks' = chunks)
    /\ (/\ currentChunk # NoChunk /\ currentChunk' # NoChunk
        /\ currentChunk'.startLine = currentChunk.startLine) =>
            /\ attributeLines' = attributeLines
            /\ currentChunk'.baseIndent = currentChunk.baseIndent

\* C8 as claimed: the chunk built from a definition read while attributes
\* are buffered starts at the line of the first buffered attribute and its
\* text begins with the buffered attribute lines in order; its base
\* indentation is that of the definition-start line.
C8_AsClaimed ==
    [][/\ AttributesWaitForDefinition
       /\ (Emits /\ attributeLines # <<>>) =>
            /\ Emitted.startLine = attributeLines[1].lineNum
            /\ Len(Emitted.text) > Len(attributeLines)
            /\ SubSeq(Emitted.text, 1, Len(attributeLines)) = AttrText(attributeLines)]_vars

\* C8 (amended): the chunk starts at the line of the first buffered
\* attribute and its text begins with the buffered attribute lines in
\* order, the first of them without its leading whitespace; its base
\* indentation is that of the definition-start line.
C8_AttributesAttached ==
    [][/\ AttributesWaitForDefinition
       /\ (Emits /\ attributeLines # <<>>) =>
            /\ Emitted.startLine = attributeLines[1].lineNum
            /\ Len(Emitted.text) > Len(attributeLines)
            /\ SubSeq(Emitted.text, 1, Len(attributeLines)) =
                  Trim(AttrText(attributeLines))]_vars

\* a chunk that starts with two attached attributes, the first one
\* indented, at the line of the first
C8_Witness ==
    /\ pc = "extract"
    /\ \E j \in 1..Len(chunks) :
          /\ Len(chunks[j].text) >= 3
          /\ chunks[j].text[1].k = "attr"
          /\ chunks[j].text[2].k = "attr"
          /\ lines[chunks[j].startLine] = L("attr", 4)
          /\ IsDefStart(chunks[j].text[3])

\* the line at which the definition of the open builder starts, or the
\* line being read when no builder is open
DefLine == IF currentChunk # NoChunk THEN currentChunk.startLine ELSE i + 1

\* an attribute line lies above line d with nothing but blank lines, at
\* least one, in between
SeparatedByBlank(d) ==
    \E a \in 1..(d - 2) :
        /\ attribute(lines[a])
        /\ \A b \in (a + 1)..(d - 1) : emptyOrWhitespace(lines[b])

\* the buffer holds attributes and a blank line lies between the last of
\* them and line d
BufferedAcrossBlank(d) ==
    /\ attributeLines # <<>>
    /\ \E b \in (attributeLines[Len(attributeLines)].lineNum + 1)..(d - 1) :
          emptyOrWhitespace(lines[b])

\* C9 as claimed: a blank line read while attributes are buffered drops
\* them, and the chunk of a definition that a blank line separates from the
\* attribute above it starts at the definition's own line and does not
\* contain the attribute.
C9_AsClaimed ==
    [][/\ (ReadsWithAttributes /\ emptyOrWhitespace(lines[i + 1])) =>
              attributeLines' = <<>>
       /\ (Emits /\ DefLine <= Len(lines) /\ SeparatedByBlank(DefLine)) =>
              /\ Emitted.startLine = DefLine
              /\ ~attribute(Emitted.text[1])]_vars

\* C9 (amended): a blank line does not unbind an attribute. A blank line
\* read while attributes are buffered leaves the buffer as it is, and the
\* chunk emitted for a definition that blank lines separate from the
\* buffered attributes starts at the line of the first buffered attribute,
\* above the definition's own line, and begins with that attribute.
C9_BlankLineKeepsAttributes ==
    [][/\ (ReadsWithAttributes /\ emptyOrWhitespace(lines[i + 1])) =>
              /\ attributeLines' = attributeLines
              /\ state' = "IDLE" /\ chunks' = chunks
       /\ (Emits /\ BufferedAcrossBlank(DefLine)) =>
              /\ Emitted.startLine = attributeLines[1].lineNum
              /\ Emitted.startLine < DefLine
              /\ attribute(Emitted.text[1])]_vars

\* an attribute, a blank line and a class: the class chunk starts at the
\* attribute line and begins with the attribute
C9_Witness ==
    /\ pc = "extract"
    /\ Len(lines) = 3
    /\ attribute(lines[1]) /\ emptyOrWhitespace(lines[2]) /\ classOrStruct(lines[3])
    /\ Len(chunks) = 1
    /\ chunks[1].startLine = 1 /\ chunks[1].endLine = 3
    /\ attribute(chunks[1].text[1])

\* C10: when attributes are buffered and the line read in IDLE is not
\* blank, not a comment, not an attribute and not a definition-start (a
\* directive or plain content), the buffer is emptied, the scan does not
\* fail, and no chunk is emitted by the step.
C10_OrphanedAttributesDiscarded ==
    [][(/\ ReadsWithAttributes
        /\ ~isBlankOrComment(lines[i + 1])
        /\ ~attribute(lines[i + 1])
        /\ ~IsDefStart(lines[i + 1])) =>
            /\ attributeLines' = <<>>
            /\ pc' # "threw"
            /\ chunks' = chunks]_vars

\* a header-only method: a function start that ends with the header
\* terminator and no assignment marker
HeaderOnlyMethod(l) ==
    functionStart(l) /\ interfaceMethodEnd(l) /\ ~signatureEnd(l)

\* the whole input is an interface definition whose body is two
\* header-only methods
IsTwoMethodInterface(ls) ==
    /\ Len(ls) = 3
    /\ ls[1].k = "iface"
    /\ \A j \in 2..3 : HeaderOnlyMethod(ls[j]) /\ ls[j].ind > ls[1].ind

Extracted == pc \in {"split", "done"}

\* C11 as claimed: such an interface yields two chunks, one per method,
\* each holding its header line only.
C11_AsClaimed ==
    (Extracted /\ IsTwoMethodInterface(lines)) =>
        /\ Len(chunksWithNested) = 2
        /\ \A j \in 1..2 :
              /\ chunksWithNested[j].startLine = j + 1
              /\ chunksWithNested[j].endLine = j + 1
              /\ Len(chunksWithNested[j].text) = 1

\* C11 (amended): such an interface yields exactly one chunk, of kind
\* interface, that spans the interface line and both method headers and
\* holds them as its text; no chunk is made per method, by the Segmenter
\* or by extraction.
C11_InterfaceOneChunk ==
    (Extracted /\ IsTwoMethodInterface(lines)) =>
        /\ Len(chunks) = 1
        /\ chunksWithNested = chunks
        /\ chunks[1].type = "interface"
        /\ chunks[1].startLine = 1 /\ chunks[1].endLine = 3
        /\ chunks[1].text = lines

\* an interface with two header-only methods was scanned and extraction
\* ran over its one chunk
C11_Witness ==
    /\ pc = "split"
    /\ IsTwoMethodInterface(lines)
    /\ Len(chunksWithNested) = 1
    /\ chunksWithNested[1].type = "interface"
    /\ Len(chunksWithNested[1].text) = 3

\* the positions of the function-start lines in a text
MethodLinesOf(text) == {j \in 1..Len(text) : functionStart(text[j])}

\* the line of a class chunk that declares the class
ClassLineOf(c) == CHOOSE j \in 1..Len(c.text) : classOrStruct(c.text[j])

\* a class chunk whose body contains exactly two methods, both with
\* single-line headers, at the first nesting level
TwoMethodClass(c) ==
    /\ c.type = "class"
    /\ Cardinality(MethodLinesOf(c.text)) = 2
    /\ \A j \in MethodLinesOf(c.text) :
          /\ simpleFunction(c.text[j])
          /\ j > ClassLineOf(c)
          /\ c.text[j].ind > c.text[ClassLineOf(c)].ind
          /\ \A h \in MethodLinesOf(c.text) : c.text[h].ind = c.text[j].ind

\* the member chunks of the extractor output that lie in the range of c
MemberPositions(c) ==
    {m \in 1..Len(chunksWithNested) :
        /\ chunksWithNested[m].type = "method"
        /\ chunksWithNested[m].startLine >= c.startLine
        /\ chunksWithNested[m].endLine <= c.endLine}

\* C12: after extraction a class chunk with exactly two single-line-header
\* methods is still in the list, as kind class, together with exactly two
\* member chunks, one per method, each with the signature
\* ClassName::<method header line>.
C12_TwoMembersQualified ==
    Extracted =>
        \A p \in 1..Len(chunks) :
            TwoMethodClass(chunks[p]) =>
                LET c == chunks[p]
                    className == KWord(c.text[ClassLineOf(c)].k)
                IN /\ \E q \in 1..Len(chunksWithNested) : chunksWithNested[q] = c
                   /\ Cardinality(MemberPositions(c)) = 2
                   /\ \A j \in MethodLinesOf(c.text) :
                         \E m \in MemberPositions(c) :
                            /\ chunksWithNested[m].startLine = c.startLine + j - 1
                            /\ chunksWithNested[m].signature =
                                  Sig(<<className, "::">>, c.text[j].k, KLen(c.text[j].k))

IsMember(c) == c.type = "method"

NotMember(c) == ~IsMember(c)

\* C13: the Extractor is additive. The chunks of its input list are in its
\* output list as the same records and in the same order, and every other
\* entry of the output is a member chunk.
C13_ExtractionOnlyAdds ==
    Extracted =>
        /\ SelectSeq(chunksWithNested, NotMember) = chunks
        /\ \A m \in 1..Len(chunksWithNested) :
              IsMember(chunksWithNested[m]) =>
                  "parentClass" \in DOMAIN chunksWithNested[m]

\* extraction added member chunks to a list of two Segmenter chunks
C13_Witness ==
    /\ pc = "split"
    /\ Len(chunks) = 2
    /\ Len(chunksWithNested) > 2
    /\ \E m \in 1..Len(chunksWithNested) : IsMember(chunksWithNested[m])

Returned == pc = "done"

\* an entry of the returned list that the Splitter made: it is none of the
\* records the Splitter was given
IsSegment(r) == \A q \in 1..Len(chunksWithNested) : chunksWithNested[q] # r

\* the sum of the estimated tokens of the lines of a text
RECURSIVE LineSum(_)
LineSum(text) ==
    IF text = <<>> THEN 0 ELSE estimateTokens(<<text[1]>>) + LineSum(Tail(text))

Front(text) == SubSeq(text, 1, Len(text) - 1)

\* C14 as claimed: with an overlap budget below the target, the token
\* count of every segment is the sum of its lines' estimates and is at
\* most the target, except for a segment of a single line that alone
\* exceeds the target.
C14_AsClaimed ==
    (Returned /\ overlapTokens < targetTokens) =>
        \A j \in 1..Len(result) :
            IsSegment(result[j]) =>
                /\ result[j].tokenCount = LineSum(result[j].text)
                /\ \/ result[j].tokenCount <= targetTokens
                   \/ Len(result[j].text) = 1

\* C14 (amended): the token count of every segment is the sum of its
\* lines' estimates and is at most the target, except for a segment made
\* of the overlap lines it was seeded with (possibly none) and a single
\* further line: the lines before its last line then fit the overlap
\* budget.
C14_SegmentWithinTarget ==
    (Returned /\ overlapTokens < targetTokens) =>
        \A j \in 1..Len(result) :
            IsSegment(result[j]) =>
                /\ result[j].tokenCount = LineSum(result[j].text)
                /\ \/ result[j].tokenCount <= targetTokens
                   \/ LineSum(Front(result[j].text)) <= overlapTokens

\* a split gave a segment within the target and a segment of an overlap
\* line and one further line that is above it
C14_Witness ==
    /\ Returned
    /\ overlapTokens < targetTokens
    /\ \E j, h \in 1..Len(result) :
          /\ IsSegment(result[j]) /\ IsSegment(result[h])
          /\ Len(result[j].text) >= 2
          /\ result[j].tokenCount <= targetTokens
          /\ Len(result[h].text) = 2
          /\ result[h].tokenCount > targetTokens

\* entries j and j + 1 of the returned list are consecutive segments of
\* one chunk: same kind, same signature text, and the later one starts no
\* later than the line after the earlier one ends
ConsecutiveSegments(j) ==
    /\ IsSegment(result[j]) /\ IsSegment(result[j + 1])
    /\ result[j].type = result[j + 1].type
    /\ result[j].signature.k = result[j + 1].signature.k
    /\ result[j + 1].startLine <= result[j].endLine + 1

\* the number of lines segment j + 1 shares with segment j
SeedLen(j) == result[j].endLine - result[j + 1].startLine + 1

Suffix(text, n) == SubSeq(text, Len(text) - n + 1, Len(text))

\* C15: of two consecutive segments of one chunk, the later one begins
\* with the lines it shares with the earlier one; that run is a suffix of
\* the earlier segment's lines, is followed by at least one new line, and
\* its summed token estimate is at most the overlap budget.
C15_OverlapIsBoundedSuffix ==
    Returned =>
        \A j \in 1..(Len(result) - 1) :
            ConsecutiveSegments(j) =>
                /\ SeedLen(j) <= Len(result[j].text)
                /\ SeedLen(j) < Len(result[j + 1].text)
                /\ SubSeq(result[j + 1].text, 1, SeedLen(j)) =
                      Suffix(result[j].text, SeedLen(j))
                /\ LineSum(Suffix(result[j].text, SeedLen(j))) <= overlapTokens

\* a later segment that begins with a line carried over from the segment
\* before it
C15_Witness ==
    /\ Returned
    /\ \E j \in 1..(Len(result) - 1) :
          /\ ConsecutiveSegments(j)
          /\ SeedLen(j) >= 1
          /\ result[j + 1].text[1] = result[j].text[Len(result[j].text)]
          /\ Len(result[j].text) >= 2

\* the positions in the returned list of the segments made from chunk c:
\* segments of its kind, with its signature text, inside its line range
SegmentsOf(c) ==
    {j \in 1..Len(result) :
        /\ IsSegment(result[j])
        /\ result[j].type = c.type
        /\ result[j].signature.k = SignatureLine(c).k
        /\ result[j].startLine >= c.startLine
        /\ result[j].endLine <= c.endLine}

\* the least element of a non-empty set of positions
First(S) == CHOOSE j \in S : \A h \in S : j <= h

\* C16: for every chunk that was re-split, wherever it stands in the list,
\* the first segment emitted for it carries the chunk's own signature and
\* each of its later segments carries that signature marked as continued.
C16_FirstSegmentKeepsSignature ==
    Returned =>
        \A q \in 1..Len(chunksWithNested) :
            LET c == chunksWithNested[q]
            IN (~WithinBudget(c, targetTokens) /\ SegmentsOf(c) # {}) =>
                  \A j \in SegmentsOf(c) :
                      result[j].signature =
                          IF j = First(SegmentsOf(c)) THEN SignatureLine(c)
                          ELSE Continued(SignatureLine(c))

\* line p of the text of chunk c is in the text of one of its segments,
\* at the place the segment's start line gives it
Covered(c, p) ==
    \E j \in SegmentsOf(c) :
        LET a == result[j].startLine - c.startLine + 1
        IN /\ a <= p
           /\ p < a + Len(result[j].text)
           /\ result[j].text[p - a + 1] = c.text[p]

WasSplit(c) == ~WithinBudget(c, targetTokens)

\* the lines of c after the last one that is in a segment
UncoveredTail(c) ==
    LET last == IF \E p \in 1..Len(c.text) : Covered(c, p)
                THEN CHOOSE p \in 1..Len(c.text) :
                        Covered(c, p) /\ \A h \in (p + 1)..Len(c.text) : ~Covered(c, h)
                ELSE 0
    IN SubSeq(c.text, last + 1, Len(c.text))

\* C17 as claimed: every line of the text of a re-split chunk appears in
\* at least one emitted segment.
C17_AsClaimed ==
    Returned =>
        \A q \in 1..Len(chunksWithNested) :
            WasSplit(chunksWithNested[q]) =>
                \A p \in 1..Len(chunksWithNested[q].text) :
                    Covered(chunksWithNested[q], p)

\* C17 (amended): every line of the text of a re-split chunk appears in at
\* least one emitted segment, except for the last lines of the chunk when
\* the final partial segment is dropped by the floor: the lines that are
\* in no segment are a run at the end of the chunk whose trimmed text is
\* 20 characters or shorter.
C17_OnlyShortTailDropped ==
    Returned =>
        \A q \in 1..Len(chunksWithNested) :
            LET c == chunksWithNested[q]
                tail == UncoveredTail(c)
            IN WasSplit(c) =>
                  /\ \A p \in 1..(Len(c.text) - Len(tail)) : Covered(c, p)
                  /\ tail # <<>> => StrLen(Trim(tail)) <= FloorLen

\* a chunk was split into at least two segments and its last line,
\* within the floor, is in none of them
C17_Witness ==
    /\ Returned
    /\ \E q \in 1..Len(chunksWithNested) :
          LET c == chunksWithNested[q]
          IN /\ WasSplit(c)
             /\ Cardinality(SegmentsOf(c)) >= 2
             /\ UncoveredTail(c) # <<>>
             /\ Covered(c, 1)

HasParentQualifier(r) == "parentClass" \in DOMAIN r

\* C18: in the returned list the chunks that derive from an extracted
\* member (member chunks and the segments of re-split member chunks, all
\* of kind method) are exactly the chunks that carry a parent qualifier.
C18_MembersCarryParentQualifier ==
    Returned =>
        \A j \in 1..Len(result) :
            IsMember(result[j]) <=> HasParentQualifier(result[j])

\* C19: every chunk of the returned list, whichever pass made it, has a
\* trimmed text longer than the floor of 20 characters.
C19_ReturnedChunksAboveFloor ==
    Returned => \A j \in 1..Len(result) : AboveFloor(result[j].text)

\* the positions of the returned list that hold the record c
PositionsOf(c) == {j \in 1..Len(result) : result[j] = c}

\* C20: a chunk whose token count is at most 1.5 times the target is in
\* the returned list as the identical record, once, and no segment is made
\* from it; a chunk strictly above 1.5 times the target is not in the list
\* itself.
C20_PassThroughAtOrBelowBudget ==
    Returned =>
        \A q \in 1..Len(chunksWithNested) :
            LET c == chunksWithNested[q]
            IN IF 2 * c.tokenCount <= 3 * targetTokens
               THEN Cardinality(PositionsOf(c)) = 1 /\ SegmentsOf(c) = {}
               ELSE PositionsOf(c) = {}

\* a chunk of exactly 1.5 times the target was passed through and a
\* larger one was replaced by segments
C20_Witness ==
    /\ Returned
    /\ \E q, h \in 1..Len(chunksWithNested) :
          /\ 2 * chunksWithNested[q].tokenCount = 3 * targetTokens
          /\ PositionsOf(chunksWithNested[q]) # {}
          /\ 2 * chunksWithNested[h].tokenCount > 3 * targetTokens
          /\ PositionsOf(chunksWithNested[h]) = {}
          /\ SegmentsOf(chunksWithNested[h]) # {}


\* the scan reads, in IDLE, a function header complete on its line with an
\* empty or flat parameter list
ReadsSimpleFunctionInIdle ==
    /\ Reading
    /\ state = "IDLE"
    /\ lines[i + 1].k \in {"simpleFn", "simpleFnS"}

\* C21 as claimed: in IDLE a single-line-complete function header opens a
\* builder that is finalized on that same line with no body phase, and the
\* machine stays in IDLE.
C21_AsClaimed ==
    [][ReadsSimpleFunctionInIdle =>
          /\ state' = "IDLE"
          /\ currentChunk' = NoChunk]_vars

\* C21 (amended): in IDLE a single-line-complete function header opens a
\* builder of kind function that starts at that line, holds the line as its
\* header and the line's indentation as its base indentation; the builder
\* stays open, nothing is emitted on that line, and the machine enters
\* IN_BODY.
C21_SimpleFunctionOpensBody ==
    [][ReadsSimpleFunctionInIdle =>
          /\ state' = "IN_BODY"
          /\ chunks' = chunks
          /\ currentChunk' # NoChunk
          /\ currentChunk'.startLine = i + 1
          /\ currentChunk'.signatureLines = <<lines[i + 1]>>
          /\ currentChunk'.bodyLines = <<>>
          /\ currentChunk'.baseIndent = lines[i + 1].ind
          /\ currentChunk'.type = "function"]_vars

\* the first line of the file was a single-line function header and its
\* builder is open with a body line taken in
C21_Witness ==
    /\ pc = "scan"
    /\ i = 2
    /\ lines[1].k \in {"simpleFn", "simpleFnS"}
    /\ state = "IN_BODY"
    /\ currentChunk # NoChunk
    /\ currentChunk.startLine = 1
    /\ Len(currentChunk.bodyLines) = 1


\* the line read is processed under the IDLE rules: the machine is in IDLE,
\* or the line ends the open body and is reprocessed
UnderIdleRules ==
    /\ Reading
    /\ \/ state = "IDLE"
       \/ /\ state = "IN_BODY"
          /\ currentChunk # NoChunk
          /\ lines[i + 1].k \notin {"blank", "comment"}
          /\ lines[i + 1].ind <= currentChunk.baseIndent

\* a function-start line that ends with the header terminator and the
\* trailing assignment marker
CompleteHeader(l) == l.k \in {"simpleFn", "simpleFnS", "fnNested"}

\* C22: a function-start line that is itself a complete header never puts
\* the machine in IN_SIGNATURE: its builder goes straight to the body
\* phase, so the deeper lines after it are its body and the next non-blank,
\* non-comment line at or below its indentation ends the chunk.
C22_CompleteHeaderSkipsInHeader ==
    [][(UnderIdleRules /\ CompleteHeader(lines[i + 1])) =>
          /\ state' = "IN_BODY"
          /\ currentChunk' # NoChunk
          /\ currentChunk'.startLine = i + 1
          /\ currentChunk'.signatureLines = <<lines[i + 1]>>]_vars


\* the scan reads, in IN_BODY, a non-blank, non-comment line at or below
\* the base indentation of the open builder
ReadsBodyEnd ==
    /\ Reading
    /\ state = "IN_BODY"
    /\ currentChunk # NoChunk
    /\ lines[i + 1].k \notin {"blank", "comment"}
    /\ lines[i + 1].ind <= currentChunk.baseIndent

\* an enum written on one line, with both braces
OneLineEnum(l) == l.k \in {"enum1", "enumS"}

\* C23: when a non-blank, non-comment line at or below the base indentation
\* ends a body, the builder is finalized with endLine equal to the previous
\* line and that same line is processed under the IDLE rules in the same
\* step: a definition-start opens the next chunk at its own line number, an
\* attribute is buffered, so no line is skipped and no line is included in
\* two Segmenter chunks.
C23_BodyEndReprocessesLine ==
    [][ReadsBodyEnd =>
          LET line == lines[i + 1] IN
          /\ pc' = "scan"
          /\ i' = i + 1
          /\ Len(chunks') >= Len(chunks)
          /\ SubSeq(chunks', 1, Len(chunks)) = chunks
          /\ \A j \in (Len(chunks) + 1)..Len(chunks') :
                \/ chunks'[j].endLine = i
                \/ /\ OneLineEnum(line)
                   /\ chunks'[j].startLine = i + 1
                   /\ chunks'[j].endLine = i + 1
          /\ StrLen(Trim(Accumulated)) > 20 =>
                /\ Len(chunks') > Len(chunks)
                /\ chunks'[Len(chunks) + 1].endLine = i
                /\ Code(chunks'[Len(chunks) + 1].text) = Code(Accumulated)
          /\ IF IsDefStart(line) /\ ~OneLineEnum(line)
             THEN /\ state' \in {"IN_BODY", "IN_SIGNATURE"}
                  /\ currentChunk' # NoChunk
                  /\ currentChunk'.startLine = i + 1
                  /\ currentChunk'.signatureLines = <<line>>
                  /\ currentChunk'.bodyLines = <<>>
             ELSE /\ state' = "IDLE"
                  /\ currentChunk' = NoChunk
          /\ attributeLines' =
                IF line.k = "attr" THEN <<[lineNum |-> i + 1, text |-> line]>>
                ELSE <<>>]_vars

\* a body was ended by a definition-start: the chunk of the first
\* definition ends at the line before it and the builder of the second
\* starts at that line
C23_Witness ==
    /\ pc = "scan"
    /\ i >= 2
    /\ chunks # <<>>
    /\ chunks[Len(chunks)].endLine = i - 1
    /\ currentChunk # NoChunk
    /\ currentChunk.startLine = i
    /\ state = "IN_BODY"


\* a line IN_BODY keeps in the body of a builder of base indentation base
StaysInBody(l, base) == l.k \in {"blank", "comment"} \/ l.ind > base

\* C24: in IN_BODY a line is appended to the body of the open builder if
\* and only if it is blank, a comment, or indented strictly deeper than the
\* builder's base indentation; so every non-blank, non-comment body line of
\* every builder is strictly deeper than that builder's base indentation.
C24_BodyLinesDeeperThanBase ==
    /\ [](currentChunk # NoChunk =>
            \A j \in 1..Len(currentChunk.bodyLines) :
                StaysInBody(currentChunk.bodyLines[j], currentChunk.baseIndent))
    /\ [][(Reading /\ state = "IN_BODY" /\ currentChunk # NoChunk) =>
            IF StaysInBody(lines[i + 1], currentChunk.baseIndent)
            THEN /\ state' = "IN_BODY"
                 /\ chunks' = chunks
                 /\ currentChunk' =
                       [currentChunk EXCEPT !.bodyLines = Append(@, lines[i + 1])]
            ELSE /\ currentChunk' # NoChunk => currentChunk'.startLine = i + 1
                 /\ \A j \in (Len(chunks) + 1)..Len(chunks') :
                       chunks'[j].endLine = i
                           => Code(chunks'[j].text) = Code(Accumulated)]_vars

\* an open body that took in a blank line and a deeper line, read before a
\* line at the base indentation that is about to end it
C24_Witness ==
    /\ Reading
    /\ state = "IN_BODY"
    /\ currentChunk # NoChunk
    /\ \E j \in 1..Len(currentChunk.bodyLines) : currentChunk.bodyLines[j].k = "blank"
    /\ \E j \in 1..Len(currentChunk.bodyLines) :
          /\ currentChunk.bodyLines[j].k = "stmt"
          /\ currentChunk.bodyLines[j].ind > currentChunk.baseIndent
    /\ lines[i + 1].k = "x"
    /\ lines[i + 1].ind = currentChunk.baseIndent


\* C25: buffered attributes are attached and the attribute buffer is
\* cleared at the moment a builder is opened: in every reachable state of
\* the scan in which a builder is open (IN_SIGNATURE or IN_BODY), the
\* attribute buffer is empty.
C25_AsClaimed ==
    (pc = "scan" /\ currentChunk # NoChunk) => attributeLines = <<>>

\* the step closes the open builder
ClosesBuilder ==
    /\ currentChunk # NoChunk
    /\ \/ currentChunk' = NoChunk
       \/ currentChunk'.startLine # currentChunk.startLine

\* C25 (amended): buffered attributes are attached and the attribute buffer
\* is cleared at the moment a builder is finalized: while a builder stays
\* open the buffer keeps the attributes read before the builder was opened,
\* and the step that finalizes the builder leaves, of the buffer, nothing
\* but an attribute read on the line of that step; a chunk the step emits
\* for the builder starts at the first buffered attribute and begins with
\* the buffered attributes.
C25_BufferClearedAtFinalize ==
    [][/\ (pc = "scan" /\ currentChunk # NoChunk /\ ~ClosesBuilder) =>
              attributeLines' = attributeLines
       /\ (pc = "scan" /\ ClosesBuilder) =>
              /\ \A j \in 1..Len(attributeLines') : attributeLines'[j].lineNum = i'
              /\ (attributeLines # <<>> /\ Len(chunks') > Len(chunks)
                     /\ StrLen(Trim(Accumulated)) > 20) =>
                    /\ chunks'[Len(chunks) + 1].startLine = attributeLines[1].lineNum
                    /\ Len(chunks'[Len(chunks) + 1].text) >= Len(attributeLines)
                    /\ \A j \in 1..Len(attributeLines) :
                          chunks'[Len(chunks) + 1].text[j].k = "attr"]_vars

\* a builder is open in IN_BODY while the attribute read before its
\* definition is still in the buffer
C25_Witness ==
    /\ pc = "scan"
    /\ state = "IN_BODY"
    /\ currentChunk # NoChunk
    /\ currentChunk.bodyLines # <<>>
    /\ attributeLines # <<>>
    /\ attributeLines[1].lineNum < currentChunk.startLine


\* the leading whitespace of a line in columns, each tab taken as 4
Columns(l) == (l.ind - l.tabs) + 4 * l.tabs

\* C26: the indentation depth of a line is the count of its leading
\* whitespace columns with each tab counted as 4 columns, and this depth is
\* the one used for the body-boundary test of the Segmenter: a builder's
\* base indentation is the depth of its definition line, and a non-blank,
\* non-comment line read in IN_BODY stays in the body exactly when its
\* depth is above the depth of the definition line.
C26_TabCountsFourColumns ==
    /\ [](currentChunk # NoChunk =>
            currentChunk.baseIndent = Columns(currentChunk.signatureLines[1]))
    /\ [][(Reading /\ state = "IN_BODY" /\ currentChunk # NoChunk
              /\ lines[i + 1].k \notin {"blank", "comment"}) =>
            ((currentChunk' = [currentChunk EXCEPT !.bodyLines = Append(@, lines[i + 1])])
                <=> Columns(lines[i + 1]) > Columns(currentChunk.signatureLines[1]))]_vars


\* a line that ends with the header terminator and the trailing assignment
\* marker
EndsHeader(l) ==
    l.k \in {"ext", "simpleFn", "simpleFnS", "fnNested", "sigEnd", "sigEndS"}

\* C27: IN_SIGNATURE is left only by a line matching the header terminator
\* with a trailing assignment marker (to IN_BODY) or by the end of the
\* input: no builder ever has the header-only kind interface-method, the
\* header-only finalization back to IDLE never fires, and every line read
\* in IN_SIGNATURE, whatever its classification or indentation, is appended
\* to the header.
C27_HeaderLeftOnlyByTerminator ==
    /\ [](currentChunk # NoChunk => currentChunk.type # "interface-method")
    /\ [][(Reading /\ state = "IN_SIGNATURE") =>
            /\ pc' = "scan"
            /\ chunks' = chunks
            /\ currentChunk # NoChunk
            /\ currentChunk' # NoChunk
            /\ currentChunk'.startLine = currentChunk.startLine
            /\ currentChunk'.bodyLines = <<>>
            /\ currentChunk'.signatureLines =
                  Append(currentChunk.signatureLines, lines[i + 1])
            /\ state' = IF EndsHeader(lines[i + 1]) THEN "IN_BODY" ELSE "IN_SIGNATURE"]_vars

\* a header still open after a line of the header-only shape, a blank line
\* or a line at the base indentation was read into it
C27_Witness ==
    /\ pc = "scan"
    /\ state = "IN_SIGNATURE"
    /\ currentChunk # NoChunk
    /\ Len(currentChunk.signatureLines) = 3
    /\ currentChunk.signatureLines[2].k = "ifaceMeth"
    /\ currentChunk.signatureLines[3].k \in {"blank", "x"}


\* the position of the Segmenter chunk the member at position j was
\* extracted from: the nearest chunk before it that is no member, 0 if none
ParentPosition(j) ==
    LET before == {p \in 1..(j - 1) : chunksWithNested[p].type # "method"}
    IN IF before = {} THEN 0
       ELSE CHOOSE p \in before : \A q \in before : q <= p

\* C28: member extraction applies only to chunks of kind class or struct:
\* a Segmenter chunk of kind interface, enum, module, function or extension
\* never produces a member chunk.
C28_MembersOnlyFromClassOrStruct ==
    Extracted =>
        \A j \in 1..Len(chunksWithNested) :
            chunksWithNested[j].type = "method" =>
                /\ ParentPosition(j) # 0
                /\ chunksWithNested[ParentPosition(j)].type \in {"class", "struct"}

\* the extraction went over a module that holds an indented function with
\* its body and added no member for it
C28_Witness ==
    /\ Extracted
    /\ \E j \in 1..Len(chunksWithNested) :
          /\ chunksWithNested[j].type = "module"
          /\ Len(chunksWithNested[j].text) = 3
          /\ chunksWithNested[j].text[2].k = "simpleFn"
          /\ chunksWithNested[j].text[2].ind = 4
          /\ chunksWithNested[j].text[3].k = "stmt"
          /\ j = Len(chunksWithNested)


\* the lines of the body of a type chunk that hold code
BodyCodeLines(c) ==
    {h \in (ClassLineOf(c) + 1)..Len(c.text) : c.text[h].k \notin {"blank", "comment"}}

\* C29: only first-level members are promoted: the header line of every
\* member chunk sits at the first nesting level of the body of its type, no
\* deeper than any line of code of that body before it; a line of the shape
\* of a member header that sits deeper, inside a first-level block that is
\* not itself a member, opens no member chunk.
C29_OnlyFirstLevelMembers ==
    Extracted =>
        \A j \in 1..Len(chunksWithNested) :
            (chunksWithNested[j].type = "method" /\ ParentPosition(j) # 0) =>
                LET parent == chunksWithNested[ParentPosition(j)]
                    pos == chunksWithNested[j].startLine - parent.startLine + 1
                IN \A h \in BodyCodeLines(parent) :
                       h < pos => chunksWithNested[j].text[1].ind <= parent.text[h].ind


\* the member chunks extracted from the chunk at position p: the members
\* that follow it up to the next chunk that is no member
MembersAt(p) ==
    {j \in (p + 1)..Len(chunksWithNested) :
        /\ chunksWithNested[j].type = "method"
        /\ ParentPosition(j) = p}

\* C30: member chunks extracted from the same parent have pairwise disjoint
\* line ranges, each ending before the next starts: while a member is open,
\* a line of the shape of a member header indented deeper than the member's
\* header is added to that member's body and never promoted to a chunk of
\* its own.
C30_SiblingMembersDisjoint ==
    Extracted =>
        \A p \in 1..Len(chunksWithNested) :
            \A j, h \in MembersAt(p) :
                j < h => chunksWithNested[j].endLine < chunksWithNested[h].startLine

\* two members of one class, the first holding in its body a deeper line of
\* the shape of a member header
C30_Witness ==
    /\ Extracted
    /\ \E p \in 1..Len(chunksWithNested) :
          \E j, h \in MembersAt(p) :
              /\ j < h
              /\ Len(chunksWithNested[j].text) >= 2
              /\ chunksWithNested[j].text[2].k = "simpleFn"
              /\ chunksWithNested[j].text[2].ind > chunksWithNested[j].text[1].ind


\* C31: each member chunk is tagged with the name of its enclosing type:
\* its parent qualifier is the identifier declared by the parent's
\* definition line and its signature is that name, '::' and the member's
\* first header line, also when the parent chunk starts with attached
\* attribute lines.
C31_MemberTaggedWithTypeName ==
    Extracted =>
        \A j \in 1..Len(chunksWithNested) :
            (chunksWithNested[j].type = "method" /\ ParentPosition(j) # 0) =>
                LET parent == chunksWithNested[ParentPosition(j)]
                    member == chunksWithNested[j]
                IN (\E h \in 1..Len(parent.text) :
                        parent.text[h].k \in {"class", "classS", "struct"}) =>
                      LET name == KWord(parent.text[ClassLineOf(parent)].k)
                      IN /\ "parentClass" \in DOMAIN member
                         /\ member.parentClass = name
                         /\ member.signature.pre = <<name, "::">>
                         /\ member.signature.k = member.text[1].k


\* C32: the line range of every member chunk lies inside the line range of
\* its parent chunk: parent.startLine < member.startLine <= member.endLine
\* <= parent.endLine.
C32_MemberRangeInsideParent ==
    Extracted =>
        \A j \in 1..Len(chunksWithNested) :
            (chunksWithNested[j].type = "method" /\ ParentPosition(j) # 0) =>
                LET parent == chunksWithNested[ParentPosition(j)]
                    member == chunksWithNested[j]
                IN /\ parent.startLine < member.startLine
                   /\ member.startLine <= member.endLine
                   /\ member.endLine <= parent.endLine

\* a member that runs to the last line of its parent, and a parent that
\* lost a blank line between its attribute and its definition line
C32_Witness ==
    /\ Extracted
    /\ \E j \in 1..Len(chunksWithNested) :
          /\ chunksWithNested[j].type = "method"
          /\ ParentPosition(j) # 0
          /\ chunksWithNested[j].endLine = chunksWithNested[ParentPosition(j)].endLine
          /\ chunksWithNested[j].startLine < chunksWithNested[j].endLine


\* C33: for every chunk of the list chunkVerseFile returns, the number of
\* lines of its text equals endLine - startLine + 1: the reported range
\* names exactly the input lines the text was built from, also when
\* attributes are attached across skipped blank or comment lines and for
\* member chunks located by offset inside such a parent.
C33_TextLinesMatchRange ==
    Returned =>
        \A j \in 1..Len(result) :
            Len(result[j].text) = result[j].endLine - result[j].startLine + 1


\* C34: splitting always makes progress: each segment emitted for a chunk
\* ends on a strictly later line of the chunk than the segment before it,
\* so a chunk never gives more segments than it has lines and the split
\* ends, whatever the target and the overlap budget are (an overlap budget
\* at or above the target included).
C34_SplitMakesProgress ==
    /\ pc # "threw"
    /\ Returned =>
        \A q \in 1..Len(chunksWithNested) :
            LET c == chunksWithNested[q]
            IN 2 * c.tokenCount > 3 * targetTokens =>
                  /\ Cardinality(SegmentsOf(c)) <= Len(c.text)
                  /\ \A j, h \in SegmentsOf(c) :
                        j < h => /\ result[j].endLine < result[h].endLine
                                 /\ result[j].startLine <= result[h].startLine
                  /\ \A j \in SegmentsOf(c) :
                        /\ c.startLine <= result[j].startLine
                        /\ result[j].startLine <= result[j].endLine
                        /\ result[j].endLine <= c.endLine

\* a call with an overlap budget at or above the target returned three
\* segments of one chunk, each starting with lines of the one before
C34_Witness ==
    /\ Returned
    /\ overlapTokens >= targetTokens
    /\ \E q \in 1..Len(chunksWithNested) :
          /\ Cardinality(SegmentsOf(chunksWithNested[q])) >= 3
          /\ \E j, h \in SegmentsOf(chunksWithNested[q]) :
                /\ j < h
                /\ result[h].startLine <= result[j].endLine


\* a builder exists exactly when the machine is in IN_SIGNATURE or IN_BODY
BuilderIffNotIdle ==
    (currentChunk # NoChunk) <=> (state \in {"IN_SIGNATURE", "IN_BODY"})

\* C40 as claimed: at every line boundary of the scan the builder is
\* non-null if and only if the state is IN_SIGNATURE or IN_BODY, and
\* finalizing a builder, whether its chunk is emitted or discarded by the
\* floor, always leaves the machine in IDLE with no builder.
C40_AsClaimed ==
    /\ [](pc = "scan" => BuilderIffNotIdle)
    /\ [][(currentChunk # NoChunk /\ currentChunk' = NoChunk) => state' = "IDLE"]_vars

\* C40 (amended): at every line boundary of the scan the builder is
\* non-null if and only if the state is IN_SIGNATURE or IN_BODY; a builder
\* finalized while a line is read leaves the machine in IDLE with no
\* builder unless the same line opens the next one; the finalization at the
\* end of the input removes the builder and leaves the state as it was, so
\* after the scan the state is IN_SIGNATURE or IN_BODY with no builder.
C40_BuilderIffNotIdleDuringScan ==
    /\ [](pc = "scan" => BuilderIffNotIdle)
    /\ [](currentChunk # NoChunk => pc = "scan")
    /\ [][(currentChunk # NoChunk /\ currentChunk' = NoChunk) =>
            IF i < Len(lines) THEN state' = "IDLE" /\ pc' = "scan"
            ELSE state' = state /\ pc' = "extract"]_vars

\* the scan is over: the builder open at the end of the input was emitted
\* and the state is still IN_BODY
C40_Witness ==
    /\ pc = "extract"
    /\ state = "IN_BODY"
    /\ currentChunk = NoChunk
    /\ chunks # <<>>
    /\ chunks[Len(chunks)].endLine = Len(lines)
    /\ Len(chunks[Len(chunks)].text) >= 2


\* C35: for every interleaving of concurrent ensureInitialized calls (from
\* the handshake, tool listings, tool calls and startup) the initialization
\* body is started at most once per process.
C35_BodyStartedAtMostOnce ==
    /\ started <= 1
    /\ started = 0 <=> initializationPromise = "null"

\* the body was started once and is still in flight while main and two
\* requests have called ensureInitialized
C35_Witness ==
    /\ started = 1
    /\ initializationPromise = "pending"
    /\ mainPc = "ready"
    /\ workspaceIndex # -1
    /\ Len(requests) >= 2
    /\ \A r \in 1..2 : requests[r].at = "awaiting" /\ requests[r].awaited = "promise"



\* C36: a tool handler is handed a request only when initialization has
\* completed: isInitialized is true and the instance of its feature is
\* stored, at the moment of the call.
C36_HandlerOnlyAfterInit ==
    \A d \in 1..Len(dispatched) :
        /\ dispatched[d].isInitialized
        /\ dispatched[d].instance

\* a tool call that arrived while initialization was in flight has reached
\* its handler
C36_Witness ==
    \E d \in 1..Len(dispatched) :
        /\ requests[dispatched[d].request].kind = "callTool"
        /\ requests[dispatched[d].request].awaited = "promise"
        /\ requests[dispatched[d].request].at = "dispatched"
        /\ dispatched[d].instance



\* C37: a handshake changes the active workspace directory only when no
\* --workspace argument was given and initialization has not completed;
\* every other step, and every other handshake, leaves it unchanged.
C37_HandshakeSetsWorkspaceOnlyBeforeInit ==
    [][workspaceDir' # workspaceDir =>
          /\ workspaceIndex = -1
          /\ ~isInitialized
          /\ Len(requests') = Len(requests) + 1
          /\ Len(requests') > 0
          /\ requests'[Len(requests')].kind = "initialize"
          /\ workspaceDir' = requests'[Len(requests')].rootPath]_serverVars

\* a first handshake set the directory, initialization completed, and a
\* later handshake naming another root left the directory alone
C37_Witness ==
    /\ workspaceIndex = -1
    /\ isInitialized
    /\ workspaceDir = "rootA"
    /\ Len(requests) >= 2
    /\ requests[1].kind = "initialize"
    /\ requests[1].rootPath = "rootA"
    /\ requests[Len(requests)].kind = "initialize"
    /\ requests[Len(requests)].rootPath = "rootB"



\* C38: whenever initialization has completed, the configuration was loaded
\* for the workspace directory that is active at that moment.
C38_ConfigForActiveWorkspace ==
    isInitialized =>
        /\ "searchDirectory" \in DOMAIN config
        /\ config.searchDirectory = workspaceDir



====
